---- MODULE Spec2Model ----
(***************************************************************************)
(* Connection / routing / retry layer of the Kevo TypeScript SDK           *)
(* (src/src/connection.ts).  One Connection object, shared by the async    *)
(* call chains ("callers") of an application.  JavaScript runs every       *)
(* stretch of code between two awaits to completion, so each action below  *)
(* is one such stretch.                                                    *)
(***************************************************************************)
EXTENDS Integers, Sequences, FiniteSets, TLC

(* ------------------------------ bounds -------------------------------- *)
MaxRetriesBound == 3      \* options.maxRetries ranges over 0..MaxRetriesBound
MaxRetryDelay == 2        \* options.retryDelay ranges over 1..MaxRetryDelay
MaxTransports == 3        \* transports (gRPC clients) ever created
MaxReplicaList == 2       \* length of the replica list of a node-info response
MaxBatch == 2             \* operations accumulated in one batch

(* ----------------------------- limits -------------------------------- *)
MaxKeyBytes == 1024                  \* validateKey: keyBuffer.length > 1024
MaxValueBytes == 10485760       \* 10 * 1024 * 1024

(* --------------------------- grpc.status ------------------------------ *)
NoCode == 0               \* error.code undefined (or 0): "!code" is true
DEADLINE_EXCEEDED == 4
PERMISSION_DENIED == 7
RESOURCE_EXHAUSTED == 8
FAILED_PRECONDITION == 9
INTERNAL == 13
UNAVAILABLE == 14

Codes ==
  {NoCode, DEADLINE_EXCEEDED, PERMISSION_DENIED, RESOURCE_EXHAUSTED,
   FAILED_PRECONDITION, INTERNAL, UNAVAILABLE}

\* const retriableErrors = [UNAVAILABLE, INTERNAL, RESOURCE_EXHAUSTED, DEADLINE_EXCEEDED]
retriableErrors == {UNAVAILABLE, INTERNAL, RESOURCE_EXHAUSTED, DEADLINE_EXCEEDED}

(* ------------------------------ values -------------------------------- *)
NoClient == 0             \* a null GrpcServiceClient reference

Callers == {"c1", "c2"}   \* async call chains sharing the Connection
MainCaller == "c1"

SeedAddress == "seed:1"        \* `${options.host}:${options.port}`
PrimaryAddress == "prim:1"     \* address reported in response.primary
\* `${host}:${port}` of the reported replicas; host names may differ in case
ReplicaAddresses == {"rep:1", "Rep:2"}

Strategies == {"random", "sequential", "round_robin"}

\* An Error object as the retry code inspects it: its class, its gRPC status
\* code, and whether its lower-cased message contains 'read-only'/'readonly'.
NoError == [kind |-> "none", msg |-> "", code |-> NoCode, readOnly |-> FALSE]
\* what the callback of a unary call can be handed by the transport
RpcErrors == [kind : {"Error"}, msg : {"remote"}, code : Codes, readOnly : BOOLEAN]
\* new ConnectionError('Not connected to Kevo database')
NotConnectedError ==
  [kind |-> "ConnectionError", msg |-> "Not connected to Kevo database",
   code |-> NoCode, readOnly |-> FALSE]
\* new ConnectionError(`Failed to connect: ${error.message}`)
ConnectFailedError ==
  [kind |-> "ConnectionError", msg |-> "Failed to connect",
   code |-> NoCode, readOnly |-> FALSE]
\* new ConnectionError('Max retries exceeded')
MaxRetriesError ==
  [kind |-> "ConnectionError", msg |-> "Max retries exceeded",
   code |-> NoCode, readOnly |-> FALSE]
\* new ReadOnlyError(): 'Operation not allowed on read-only connection'
ReadOnlyErrorValue ==
  [kind |-> "ReadOnlyError", msg |-> "Operation not allowed on read-only connection",
   code |-> NoCode, readOnly |-> TRUE]

VARIABLES
  options,              \* Connection.options (fixed by the constructor)
  faults,               \* the errors the cluster answers unary calls with (fixed)
  client,               \* Connection.client
  primaryClient,        \* Connection.primaryClient
  replicaConnections,   \* Connection.replicaConnections, in insertion order
  connected,            \* Connection.connected
  isPrimary,            \* Connection.isPrimary
  currentReplicaIndex,  \* Connection.currentReplicaIndex
  transports,           \* every gRPC client ever created: <<[address, closes]>>
  pc,                   \* per caller: where its call chain is suspended
  op,                   \* per caller: the public operation it is running
  call,                 \* per caller: locals and observations of executeRead/Write
  disc,                 \* per caller: locals of connect()/discoverTopology()
  selections,           \* replicas selected since the replica map last changed
  tx,                   \* the Transaction handle: readonly, committed, rolledBack, id
  batch,                \* BatchWriter.operations
  cur,                  \* per caller: the client-level operation it is running
  last,                 \* how the last client-level operation ended, until the next
  inputs,               \* the keys and values callers pass (fixed)
  store                 \* the cluster: which node is the primary, what each node holds

\* the Connection and the call chains running on it
connAll ==
  <<options, faults, client, primaryClient, replicaConnections, connected, isPrimary,
    currentReplicaIndex, transports, pc, op, call, disc, selections>>

\* the objects built on the Connection: Transaction, BatchWriter, KevoClient
appVars == <<tx, batch, cur, last, inputs, store>>

vars == <<connAll, appVars>>

connVars ==
  <<client, primaryClient, replicaConnections, connected, isPrimary, transports>>

(* ---------------------------- pure helpers ---------------------------- *)
RECURSIVE Pow2(_)
Pow2(n) == IF n = 0 THEN 1 ELSE 2 * Pow2(n - 1)

RECURSIVE SumSeq(_)
SumSeq(s) == IF s = <<>> THEN 0 ELSE Head(s) + SumSeq(Tail(s))

\* retryDelay * Math.pow(2, attempt): the timeout handed to setTimeout
BackoffDelay_Linear(retryDelay, attempt) == retryDelay * (attempt + 1)
BackoffDelay_Doubled(retryDelay, attempt) == retryDelay * Pow2(attempt + 1)
BackoffDelay(retryDelay, attempt) == retryDelay * Pow2(attempt)

\* for (let attempt = 0; attempt <= maxRetries; attempt++)
LoopContinues_Mutant(attempt, maxRetries) == attempt <= maxRetries + 1
LoopContinues(attempt, maxRetries) == attempt <= maxRetries

\* if (!code || !retriableErrors.includes(code) || attempt >= maxRetries) throw error
ShouldThrow_Early(code, attempt, maxRetries) ==
  code = NoCode \/ code \notin retriableErrors \/ attempt + 1 >= maxRetries
ShouldThrow_RetryAll(code, attempt, maxRetries) == attempt >= maxRetries
ShouldThrow_Late(code, attempt, maxRetries) ==
  code = NoCode \/ code \notin retriableErrors \/ attempt > maxRetries
ShouldThrow(code, attempt, maxRetries) ==
  code = NoCode \/ code \notin retriableErrors \/ attempt >= maxRetries

\* executeRead: message includes 'read-only' / 'readonly', or FAILED_PRECONDITION
IsReadOnlyError(e) == e.readOnly \/ e.code = FAILED_PRECONDITION

\* executeWrite: message includes 'read-only' / 'readonly'
IsReadOnlyMessage(e) == e.readOnly

(* ------------------------------ routing ------------------------------- *)
IsConnectedReplica(conn) == conn.connected

\* the UTF-16 code units of an address
Chars(a) ==
  CASE a = "rep:1" -> <<114, 101, 112, 58, 49>>
    [] a = "Rep:2" -> <<82, 101, 112, 58, 50>>
    [] a = "seed:1" -> <<115, 101, 101, 100, 58, 49>>
    [] a = "prim:1" -> <<112, 114, 105, 109, 58, 49>>

\* s sorts before t, sequence of numbers against sequence of numbers
LexLess(s, t) ==
  \E i \in 1..(Len(s) + 1) :
    /\ i <= Len(t)
    /\ \A j \in 1..(i - 1) : s[j] = t[j]
    /\ i = Len(s) + 1 \/ s[i] < t[i]

IsUpper(c) == c \in 65..90

\* localeCompare, first level: punctuation, then digits, then letters, the
\* letters without regard to case
PrimaryWeight(c) ==
  IF c \in 48..57 THEN 1000 + c
  ELSE IF IsUpper(c) THEN 2000 + c + 32
  ELSE IF c \in 97..122 THEN 2000 + c
  ELSE c

\* localeCompare, last level: at the first difference in case, lower first
CaseWeight(c) == IF IsUpper(c) THEN 1 ELSE 0

\* a.localeCompare(b) < 0
AddressBefore(a, b) ==
  LET s == Chars(a)
      t == Chars(b)
      ps == [i \in 1..Len(s) |-> PrimaryWeight(s[i])]
      pt == [i \in 1..Len(t) |-> PrimaryWeight(t[i])]
      cs == [i \in 1..Len(s) |-> CaseWeight(s[i])]
      ct == [i \in 1..Len(t) |-> CaseWeight(t[i])]
  IN \/ LexLess(ps, pt)
     \/ ps = pt /\ LexLess(cs, ct)

\* a plain a < b on the strings: code unit by code unit
CodeUnitBefore(a, b) == LexLess(Chars(a), Chars(b))

\* the first connected replica as discovered, unsorted
FirstByAddress_Unsorted(avail) == avail[1]

\* availableReplicas.sort(by address)[0]
FirstByAddress(avail) ==
  LET i == CHOOSE i \in 1..Len(avail) :
             \A j \in 1..Len(avail) : ~AddressBefore(avail[j].address, avail[i].address)
                                      /\ (avail[j].address = avail[i].address => i <= j)
  IN avail[i]

shouldRouteToReplica ==
  IF ~options.autoRouteReads THEN FALSE
  ELSE IF Len(replicaConnections) = 0 THEN FALSE
  ELSE IF ~isPrimary THEN TRUE
  ELSE options.preferReplica

shouldRouteToPrimary ==
  IF ~options.autoRouteWrites THEN FALSE
  ELSE IF isPrimary THEN FALSE
  ELSE TRUE

\* a cursor that is read but never advanced
RoundRobinPick_Stuck(avail, index) ==
  LET i == index % Len(avail)
  IN [client |-> avail[i + 1].client, index |-> i]

\* round_robin: index = index % length; pick [index]; index++
RoundRobinPick(avail, index) ==
  LET i == index % Len(avail)
  IN [client |-> avail[i + 1].client, index |-> i + 1]

\* The results selectReplicaClient can produce in this state, each with the
\* value it leaves in currentReplicaIndex (client NoClient: null).
selectReplicaClient ==
  LET avail == SelectSeq(replicaConnections, IsConnectedReplica)
      none == {[client |-> NoClient, index |-> currentReplicaIndex]}
  IN IF Len(replicaConnections) = 0 THEN none
     ELSE IF Len(avail) = 0 THEN none
     ELSE CASE options.replicaSelectionStrategy = "random" ->
                 {[client |-> avail[i].client, index |-> currentReplicaIndex] :
                    i \in 1..Len(avail)}
            [] options.replicaSelectionStrategy = "sequential" ->
                 {[client |-> FirstByAddress(avail).client, index |-> currentReplicaIndex]}
            [] OTHER -> {RoundRobinPick(avail, currentReplicaIndex)}

\* getReadClient, once connected: the clients it can return, each with the
\* value left in currentReplicaIndex and whether a replica was selected
getReadClient ==
  IF shouldRouteToReplica
  THEN {IF s.client # NoClient
        THEN [client |-> s.client, index |-> s.index, replica |-> TRUE]
        ELSE [client |-> client, index |-> s.index, replica |-> FALSE] :
          s \in selectReplicaClient}
  ELSE {[client |-> client, index |-> currentReplicaIndex, replica |-> FALSE]}

\* writes routed the way reads are
getWriteClient_LikeReads == (CHOOSE s \in getReadClient : TRUE).client

\* writes that never leave the seed client
getWriteClient_SeedOnly == client

\* getWriteClient, once connected
getWriteClient ==
  IF shouldRouteToPrimary /\ primaryClient # NoClient
  THEN primaryClient
  ELSE client

(* ------------------------------- state -------------------------------- *)
\* the constructor's defaults for the routing options
DefaultRouting ==
  [autoRouteReads |-> TRUE, autoRouteWrites |-> TRUE, preferReplica |-> TRUE,
   replicaSelectionStrategy |-> "round_robin"]

Routings ==
  [autoRouteReads : BOOLEAN, autoRouteWrites : BOOLEAN, preferReplica : BOOLEAN,
   replicaSelectionStrategy : Strategies]

MakeOptions(maxRetries, retryDelay, routing) ==
  [maxRetries |-> maxRetries,
   retryDelay |-> retryDelay,
   autoRouteReads |-> routing.autoRouteReads,
   autoRouteWrites |-> routing.autoRouteWrites,
   preferReplica |-> routing.preferReplica,
   replicaSelectionStrategy |-> routing.replicaSelectionStrategy]

\* every retry configuration, under the default routing options
RetryOptions ==
  {MakeOptions(m, d, DefaultRouting) : m \in 0..MaxRetriesBound, d \in 1..MaxRetryDelay}

\* every routing configuration, with one retry
RoutingOptions == {MakeOptions(1, 1, r) : r \in Routings}

NoResponse == [by |-> NoClient, n |-> 0]

\* Locals of one executeRead/executeWrite call, and what it did so far.
NoCall ==
  [attempt |-> 0,            \* the loop variable
   target |-> NoClient,      \* the client the pending invocation was made on
   error |-> NoError,        \* `error` of the catch block being run
   viaPrimary |-> FALSE,     \* that catch block invoked primaryClient
   lastError |-> NoError,    \* `lastError`
   calls |-> 0,              \* invocations on the routed client
   fallbacks |-> 0,          \* invocations on primaryClient after a read-only error
   failures |-> 0,           \* invocations that failed
   oks |-> 0,                \* invocations that succeeded
   sleeps |-> <<>>,          \* the backoff delays slept, in order
   onlyRetriable |-> TRUE,   \* every failed invocation had a retriable status
   roMessage |-> FALSE,      \* some failed invocation had a read-only message
   lastResponse |-> NoResponse,  \* the response of the last successful invocation
   result |-> "none",        \* "none" | "ok" | "error"
   response |-> NoResponse,  \* the value returned
   thrown |-> NoError]       \* the error raised

NoDisc == [todo |-> <<>>, result |-> "none", failure |-> "none"]

\* A key or value argument: a string or a Buffer of len bytes, or null
NoArg == [kind |-> "null", len |-> 0]
Str(n) == [kind |-> "string", len |-> n]
Buf(n) == [kind |-> "buffer", len |-> n]

\* the arguments that matter at the boundaries of validation
BoundaryKeys == {Str(0), Buf(0), Str(1), Buf(MaxKeyBytes), Str(MaxKeyBytes + 1)}
BoundaryValues ==
  {NoArg, Str(0), Buf(0), Str(1), Buf(MaxValueBytes), Buf(MaxValueBytes + 1)}
\* what callers do: the keys and values they pass, how many operations they
\* put in a batch, and which objects they use
Layers == {"client", "tx", "batch"}
\* every boundary argument, in batches of one operation
AllInputs(uses) ==
  [keys |-> BoundaryKeys, values |-> BoundaryValues, batchMax |-> 1, uses |-> uses]
\* well-formed arguments and one oversized key
FewInputs ==
  [keys |-> {Str(1), Str(MaxKeyBytes + 1)}, values |-> {Str(1)},
   batchMax |-> MaxBatch, uses |-> Layers]
\* the same with an empty string as a value
BatchInputs ==
  [keys |-> {Str(1), Str(MaxKeyBytes + 1)}, values |-> {Str(1), Str(0)},
   batchMax |-> MaxBatch, uses |-> Layers]

\* new Transaction(connection, {readOnly}): id from generateTransactionId()
LocalId == 0
NewTransaction(readOnly) ==
  [readonly |-> readOnly, committed |-> FALSE, rolledBack |-> FALSE, id |-> LocalId]

\* the response to a Get: found, value, and the node that gave it
NoAnswer == [found |-> FALSE, value |-> <<>>, node |-> "none"]

NoCur == [layer |-> "none", method |-> "none", key |-> NoArg, value |-> NoArg,
          request |-> <<>>, answer |-> NoAnswer]

\* how a client-level operation ended: what it raised (kind "none": nothing),
\* how many RPC invocations it made and on which clients, and the handle and
\* the batch as they were when it was called
NoOutcome ==
  [layer |-> "none", method |-> "none", key |-> NoArg, value |-> NoArg,
   kind |-> "none", msg |-> "", rpcs |-> 0, request |-> <<>>,
   txBefore |-> NewTransaction(FALSE), batchBefore |-> <<>>,
   answer |-> NoAnswer, returned |-> <<>>]

\* no cluster is looked at: what its nodes answer is left open
NoCluster == [primary |-> "none", data |-> <<>>, acked |-> <<>>]

\* the objects built on a new Connection
AppConstructed(readOnly, ins) ==
  /\ tx = NewTransaction(readOnly)
  /\ batch = <<>>
  /\ cur = [p \in Callers |-> NoCur]
  /\ last = NoOutcome
  /\ inputs = ins
  /\ store = NoCluster

\* the Connection as its constructor leaves it
Constructed ==
  /\ client = NoClient
  /\ primaryClient = NoClient
  /\ replicaConnections = <<>>
  /\ connected = FALSE
  /\ isPrimary = TRUE
  /\ currentReplicaIndex = 0
  /\ transports = <<>>
  /\ pc = [p \in Callers |-> "idle"]
  /\ op = [p \in Callers |-> "none"]
  /\ call = [p \in Callers |-> NoCall]
  /\ disc = [p \in Callers |-> NoDisc]
  /\ selections = <<>>

\* a cluster that only ever fails calls as unavailable or as read-only
FewFaults ==
  {[kind |-> "Error", msg |-> "remote", code |-> UNAVAILABLE, readOnly |-> FALSE],
   [kind |-> "Error", msg |-> "remote", code |-> FAILED_PRECONDITION, readOnly |-> TRUE]}

Init ==
  /\ options \in RetryOptions
  /\ faults = RpcErrors
  /\ Constructed
  /\ AppConstructed(FALSE, FewInputs)

InitRouting ==
  /\ options \in RoutingOptions
  /\ faults = FewFaults
  /\ Constructed
  /\ AppConstructed(FALSE, FewInputs)

InitConcurrent ==
  /\ options = MakeOptions(1, 1, DefaultRouting)
  /\ faults = FewFaults
  /\ Constructed
  /\ AppConstructed(FALSE, FewInputs)

(* --------------------- executeRead / executeWrite --------------------- *)
\* the value a successful invocation resolves with: who served it, and which
\* invocation of the call it was
ResponseOf(c) == [by |-> c.target, n |-> c.calls + c.fallbacks]

\* a failed invocation, as observed
NoteFailure(c, e) ==
  [c EXCEPT !.failures = @ + 1,
            !.onlyRetriable = @ /\ e.code \in retriableErrors,
            !.roMessage = @ \/ e.readOnly]

\* return await this.execute(method, request, client)
ReturnResponse_Mutant(c) ==
  [pc |-> "sleep",
   call |-> [c EXCEPT !.oks = @ + 1, !.lastResponse = ResponseOf(c),
                      !.sleeps = Append(@, BackoffDelay(options.retryDelay, c.attempt))]]
ReturnResponse(c) ==
  [pc |-> "done",
   call |-> [c EXCEPT !.oks = @ + 1, !.lastResponse = ResponseOf(c),
                      !.result = "ok", !.response = ResponseOf(c)]]

\* the end of both catch blocks: rethrow, or sleep retryDelay * 2^attempt
RetryOrThrow(c, e) ==
  IF ShouldThrow(e.code, c.attempt, options.maxRetries)
  THEN [pc |-> "done", call |-> [c EXCEPT !.result = "error", !.thrown = e]]
  ELSE [pc |-> "sleep",
        call |-> [c EXCEPT !.sleeps =
                    Append(@, BackoffDelay(options.retryDelay, c.attempt))]]

\* catch block of executeRead, up to its first await or throw
CatchRead_NoFallback(c, e) ==
  RetryOrThrow([c EXCEPT !.error = e, !.lastError = e], e)
\* a catch block that tries the primary after any error
CatchRead_AnyError(c, e) ==
  LET c1 == [c EXCEPT !.error = e, !.lastError = e]
  IN IF primaryClient # NoClient
     THEN [pc |-> "fallback",
           call |-> [c1 EXCEPT !.target = primaryClient, !.fallbacks = @ + 1,
                               !.viaPrimary = TRUE]]
     ELSE RetryOrThrow(c1, e)
CatchRead(c, e) ==
  LET c1 == [c EXCEPT !.error = e, !.lastError = e]
  IN IF IsReadOnlyError(e) /\ primaryClient # NoClient
     THEN [pc |-> "fallback",
           call |-> [c1 EXCEPT !.target = primaryClient, !.fallbacks = @ + 1,
                               !.viaPrimary = TRUE]]
     ELSE RetryOrThrow(c1, e)

\* catch block of executeWrite
CatchWrite_NoReadOnly(c, e) ==
  RetryOrThrow([c EXCEPT !.error = e, !.lastError = e], e)
CatchWrite(c, e) ==
  LET c1 == [c EXCEPT !.error = e, !.lastError = e]
  IN IF IsReadOnlyMessage(e)
     THEN [pc |-> "done",
           call |-> [c1 EXCEPT !.result = "error", !.thrown = ReadOnlyErrorValue]]
     ELSE RetryOrThrow(c1, e)

Catch(p, c, e) == IF op[p] = "read" THEN CatchRead(c, e) ELSE CatchWrite(c, e)

\* the selections kept: the last 2 * (number of replicas) of them
Remember(sel, h) ==
  LET all == Append(sel, h)
      keep == 2 * Len(replicaConnections)
  IN IF Len(all) <= keep THEN all
     ELSE SubSeq(all, Len(all) - keep + 1, Len(all))

\* The try block of one loop iteration, up to the await of the invocation:
\* getReadClient()/getWriteClient(), then execute() issues the call.
IssueAttempt(p, c) ==
  IF ~connected
  THEN \* the getter throws ConnectionError inside the try block
       LET nxt == Catch(p, c, NotConnectedError)
       IN /\ pc' = [pc EXCEPT ![p] = nxt.pc]
          /\ call' = [call EXCEPT ![p] = nxt.call]
          /\ UNCHANGED <<currentReplicaIndex, selections>>
  ELSE IF op[p] = "read"
  THEN \E s \in getReadClient :
          /\ pc' = [pc EXCEPT ![p] = "invoke"]
          /\ call' = [call EXCEPT ![p] =
                        [c EXCEPT !.target = s.client, !.calls = @ + 1,
                                  !.error = NoError, !.viaPrimary = FALSE]]
          /\ currentReplicaIndex' = s.index
          /\ selections' = IF s.replica THEN Remember(selections, s.client)
                           ELSE selections
  ELSE /\ pc' = [pc EXCEPT ![p] = "invoke"]
       /\ call' = [call EXCEPT ![p] =
                     [c EXCEPT !.target = getWriteClient, !.calls = @ + 1,
                               !.error = NoError, !.viaPrimary = FALSE]]
       /\ UNCHANGED <<currentReplicaIndex, selections>>

\* executeRead(): if (!this.isConnected()) await this.connect()
EnterRead(p) ==
  /\ pc[p] = "idle"
  /\ op' = [op EXCEPT ![p] = "read"]
  /\ pc' = [pc EXCEPT ![p] = IF connected THEN "begin" ELSE "loading"]
  /\ UNCHANGED <<options, faults, connVars, currentReplicaIndex, call, disc, selections>>

\* executeRead() called on the Connection itself
StartRead(p) == EnterRead(p) /\ UNCHANGED appVars

\* executeWrite(): if (!this.isConnected()) await this.connect()
EnterWrite(p) ==
  /\ pc[p] = "idle"
  /\ op' = [op EXCEPT ![p] = "write"]
  /\ pc' = [pc EXCEPT ![p] = IF connected THEN "begin" ELSE "loading"]
  /\ UNCHANGED <<options, faults, connVars, currentReplicaIndex, call, disc, selections>>

\* executeWrite() called on the Connection itself
StartWrite(p) == EnterWrite(p) /\ UNCHANGED appVars

\* the retry loop is entered: attempt = 0
Begin(p) ==
  /\ pc[p] = "begin"
  /\ IssueAttempt(p, NoCall)
  /\ UNCHANGED <<options, faults, connVars, op, disc>>
  /\ UNCHANGED appVars

\* the await of execute() ends: its response is returned, or the catch
\* block runs
InvokeResult(p, ok, e) ==
  /\ pc[p] = "invoke"
  /\ LET nxt == IF ok THEN ReturnResponse(call[p])
                ELSE Catch(p, NoteFailure(call[p], e), e)
     IN /\ pc' = [pc EXCEPT ![p] = nxt.pc]
        /\ call' = [call EXCEPT ![p] = nxt.call]
  /\ UNCHANGED <<options, faults, connVars, currentReplicaIndex, op, disc, selections>>

\* the routed invocation completes, with whatever the cluster answers
InvokeDone(p) ==
  /\ \E ok \in BOOLEAN, e \in faults : InvokeResult(p, ok, e)
  /\ UNCHANGED appVars

\* executeRead: the invocation on primaryClient completes
FallbackDone(p) ==
  /\ pc[p] = "fallback"
  /\ \E ok \in BOOLEAN, e \in faults :
        LET c1 == [NoteFailure(call[p], e) EXCEPT !.lastError = e]
            nxt == IF ok THEN ReturnResponse(call[p])
                   ELSE RetryOrThrow(c1, call[p].error)
        IN /\ pc' = [pc EXCEPT ![p] = nxt.pc]
           /\ call' = [call EXCEPT ![p] = nxt.call]
  /\ UNCHANGED <<options, faults, connVars, currentReplicaIndex, op, disc, selections>>
  /\ UNCHANGED appVars

\* the backoff timer fires: attempt++, the loop test, the next try block
SleepDone(p) ==
  /\ pc[p] = "sleep"
  /\ LET c1 == [call[p] EXCEPT !.attempt = @ + 1]
     IN IF LoopContinues(c1.attempt, options.maxRetries)
        THEN IssueAttempt(p, c1)
        ELSE \* throw lastError || new ConnectionError('Max retries exceeded')
             /\ pc' = [pc EXCEPT ![p] = "done"]
             /\ call' = [call EXCEPT ![p] =
                           [c1 EXCEPT !.result = "error",
                                      !.thrown = IF c1.lastError # NoError
                                                 THEN c1.lastError
                                                 ELSE MaxRetriesError]]
             /\ UNCHANGED <<currentReplicaIndex, selections>>
  /\ UNCHANGED <<options, faults, connVars, op, disc>>
  /\ UNCHANGED appVars

\* the promise of the operation has settled and its caller goes on
Return(p) ==
  /\ pc[p] = "done"
  /\ cur[p].layer = "none"
  /\ pc' = [pc EXCEPT ![p] = "idle"]
  /\ op' = [op EXCEPT ![p] = "none"]
  /\ call' = [call EXCEPT ![p] = NoCall]
  /\ disc' = [disc EXCEPT ![p] = NoDisc]
  /\ UNCHANGED <<options, faults, connVars, currentReplicaIndex, selections>>
  /\ UNCHANGED appVars

(* ------------------- connect() / discoverTopology() ------------------- *)
\* the node-info responses: role, the primary entry, the replica entries
ReplicaLists ==
  UNION {[1..n -> [address : ReplicaAddresses, available : BOOLEAN]] :
           n \in 0..MaxReplicaList}

NodeInfoResponses ==
  [role : {"primary", "replica", "other"},
   primary : {"absent", "unavailable", "available"},
   replicas : ReplicaLists]

\* the addresses the replica loop calls connectToReplica with:
\* if (host && port && available)
RECURSIVE AvailableAddresses(_)
AvailableAddresses(list) ==
  IF list = <<>> THEN <<>>
  ELSE IF Head(list).available
       THEN <<Head(list).address>> \o AvailableAddresses(Tail(list))
       ELSE AvailableAddresses(Tail(list))

\* this.replicaConnections.has(address)
HasReplica(map, address) == \E i \in 1..Len(map) : map[i].address = address

\* a connectToReplica without the has(address) test
SkipKnown_None(todo, map) == todo

\* connectToReplica returns at once for an address already in the map
RECURSIVE SkipKnown(_, _)
SkipKnown(todo, map) ==
  IF todo = <<>> THEN <<>>
  ELSE IF HasReplica(map, Head(todo)) THEN SkipKnown(Tail(todo), map)
       ELSE todo

\* this.replicaConnections.set(address, {client, address, connected: true})
MapSet(map, address, h) ==
  LET entry == [client |-> h, address |-> address, connected |-> TRUE]
  IN IF HasReplica(map, address)
     THEN [i \in 1..Len(map) |-> IF map[i].address = address THEN entry ELSE map[i]]
     ELSE Append(map, entry)

\* a new gRPC client: its address, how often close() was called on it, and
\* whether its channel is READY
NewTransport(address, ready) ==
  Append(transports, [address |-> address, closes |-> 0, ready |-> ready])

\* connect() returns to what awaited it
AfterConnect(p) == IF op[p] = "connect" THEN "done" ELSE "begin"

\* connect(): if (this.connected) return; else the await of protoLoader.load
StartConnect(p) ==
  /\ pc[p] = "idle"
  /\ op' = [op EXCEPT ![p] = "connect"]
  /\ IF connected
     THEN /\ pc' = [pc EXCEPT ![p] = "done"]
          /\ disc' = [disc EXCEPT ![p] = [NoDisc EXCEPT !.result = "ok"]]
     ELSE /\ pc' = [pc EXCEPT ![p] = "loading"]
          /\ disc' = disc
  /\ UNCHANGED <<options, faults, connVars, currentReplicaIndex, call, selections>>
  /\ UNCHANGED appVars

\* what is thrown inside the try block of connect(), by cause: protoLoader
\* fails, the connect timer fires, waitForReady reports an error, or the
\* channel is not READY
ConnectCause(why) ==
  CASE why = "load" ->
         [kind |-> "Error", msg |-> "load", code |-> NoCode, readOnly |-> FALSE]
    [] why = "timeout" ->
         [kind |-> "TimeoutError", msg |-> "Connection timeout",
          code |-> NoCode, readOnly |-> FALSE]
    [] why = "transport" ->
         [kind |-> "ConnectionError", msg |-> "Failed to connect",
          code |-> NoCode, readOnly |-> FALSE]
    [] why = "notReady" ->
         [kind |-> "ConnectionError", msg |-> "Channel not ready",
          code |-> NoCode, readOnly |-> FALSE]

\* a catch block that rethrows what it caught
ConnectCatch_Rethrow(e) == e

\* catch (error) { throw new ConnectionError(`Failed to connect: ...`) }
ConnectCatch(e) == ConnectFailedError

\* a connect() that starts over when it fails
FailConnect_Again(p, why) ==
  /\ pc' = [pc EXCEPT ![p] = "loading"]
  /\ UNCHANGED <<disc, call>>

\* connect() throws: it rejects the promise of connect(), or that of the
\* executeRead/executeWrite awaiting it
FailConnect(p, why) ==
  /\ pc' = [pc EXCEPT ![p] = "done"]
  /\ disc' = [disc EXCEPT ![p] = [NoDisc EXCEPT !.result = "failed", !.failure = why]]
  /\ call' = [call EXCEPT ![p] =
                [NoCall EXCEPT !.result = "error",
                               !.thrown = ConnectCatch(ConnectCause(why))]]

\* the proto definition is loaded (or not); the seed client is created and
\* waitForReady is called on it
LoadDone(p) ==
  /\ pc[p] = "loading"
  /\ \/ /\ FailConnect(p, "load")
        /\ UNCHANGED <<client, transports>>
     \/ /\ Len(transports) < MaxTransports
        /\ transports' = NewTransport(SeedAddress, FALSE)
        /\ client' = Len(transports) + 1
        /\ pc' = [pc EXCEPT ![p] = "waitReady"]
        /\ UNCHANGED <<call, disc>>
  /\ UNCHANGED <<options, faults, primaryClient, replicaConnections, connected, isPrimary,
                 currentReplicaIndex, op, selections>>
  /\ UNCHANGED appVars

\* waitForReady calls back, or the connect timer fires first.  Without an
\* error the state of this.client is read: READY sets connected and sends
\* GetNodeInfo on this.client.
ReadyDone(p) ==
  /\ pc[p] = "waitReady"
  /\ \/ /\ \E why \in {"timeout", "transport"} : FailConnect(p, why)
        /\ UNCHANGED <<connected, transports>>
     \/ /\ client # NoClient
        /\ \E ready \in BOOLEAN :
              IF ready
              THEN /\ connected' = TRUE
                   /\ transports' = [transports EXCEPT ![client].ready = TRUE]
                   /\ pc' = [pc EXCEPT ![p] = "nodeInfo"]
                   /\ UNCHANGED <<call, disc>>
              ELSE /\ FailConnect(p, "notReady")
                   /\ UNCHANGED <<connected, transports>>
  /\ UNCHANGED <<options, faults, client, primaryClient, replicaConnections, isPrimary,
                 currentReplicaIndex, op, selections>>
  /\ UNCHANGED appVars

\* a replica loop that does not test this.isPrimary
ReplicaLoop_AnyRole(p, primaryNow, todo, map) ==
  LET rest == SkipKnown(todo, map)
  IN IF options.autoRouteReads /\ rest # <<>>
     THEN [pc |-> "connReplica", todo |-> rest]
     ELSE [pc |-> AfterConnect(p), todo |-> <<>>]

\* the replica loop of discoverTopology, from the addresses still to visit,
\* up to its next await: the pc and the addresses left
ReplicaLoop(p, primaryNow, todo, map) ==
  LET rest == SkipKnown(todo, map)
  IN IF primaryNow /\ options.autoRouteReads /\ rest # <<>>
     THEN [pc |-> "connReplica", todo |-> rest]
     ELSE [pc |-> AfterConnect(p), todo |-> <<>>]

\* GetNodeInfo completes
InfoDone(p) ==
  /\ pc[p] = "nodeInfo"
  /\ \/ \* it failed: console.warn, and connect() returns
        /\ pc' = [pc EXCEPT ![p] = AfterConnect(p)]
        /\ disc' = [disc EXCEPT ![p] = [NoDisc EXCEPT !.result = "ok"]]
        /\ UNCHANGED isPrimary
     \/ \E r \in NodeInfoResponses :
          LET avail == AvailableAddresses(r.replicas)
              nxt == IF r.role = "replica" /\ r.primary = "available"
                        /\ options.autoRouteWrites
                     THEN [pc |-> "connPrimary", todo |-> avail]
                     ELSE ReplicaLoop(p, r.role = "primary", avail, replicaConnections)
          IN /\ isPrimary' = (r.role = "primary")
             /\ pc' = [pc EXCEPT ![p] = nxt.pc]
             /\ disc' = [disc EXCEPT ![p] = [NoDisc EXCEPT !.todo = nxt.todo,
                                                         !.result = "ok"]]
  /\ UNCHANGED <<options, faults, client, primaryClient, replicaConnections, connected,
                 transports, currentReplicaIndex, op, call, selections>>
  /\ UNCHANGED appVars

\* createClient for the reported primary completes
PrimaryConnDone(p) ==
  /\ pc[p] = "connPrimary"
  /\ \/ /\ Len(transports) < MaxTransports
        /\ transports' = NewTransport(PrimaryAddress, TRUE)
        /\ primaryClient' = Len(transports) + 1
     \/ \* it failed: console.warn
        UNCHANGED <<transports, primaryClient>>
  /\ LET nxt == ReplicaLoop(p, isPrimary, disc[p].todo, replicaConnections)
     IN /\ pc' = [pc EXCEPT ![p] = nxt.pc]
        /\ disc' = [disc EXCEPT ![p].todo = nxt.todo]
  /\ UNCHANGED <<options, faults, client, replicaConnections, connected, isPrimary,
                 currentReplicaIndex, op, call, selections>>
  /\ UNCHANGED appVars

\* createClient for the replica at the head of the list completes
ReplicaConnDone(p) ==
  /\ pc[p] = "connReplica"
  /\ \/ /\ Len(transports) < MaxTransports
        /\ transports' = NewTransport(Head(disc[p].todo), TRUE)
        /\ replicaConnections' =
             MapSet(replicaConnections, Head(disc[p].todo), Len(transports) + 1)
        /\ selections' = <<>>
     \/ \* it failed: console.warn
        UNCHANGED <<transports, replicaConnections, selections>>
  /\ LET nxt == ReplicaLoop(p, TRUE, Tail(disc[p].todo), replicaConnections')
     IN /\ pc' = [pc EXCEPT ![p] = nxt.pc]
        /\ disc' = [disc EXCEPT ![p].todo = nxt.todo]
  /\ UNCHANGED <<options, faults, client, primaryClient, connected, isPrimary,
                 currentReplicaIndex, op, call>>
  /\ UNCHANGED appVars

\* a disconnect() that closes nothing
CloseAll_Nothing(hs) == transports

\* client.close() on each handle of hs
CloseAll(hs) ==
  [h \in 1..Len(transports) |->
     IF h \in hs THEN [transports[h] EXCEPT !.closes = @ + 1, !.ready = FALSE]
     ELSE transports[h]]

\* disconnect(): synchronous, callable whenever no other code runs
Disconnect ==
  LET replicas == {replicaConnections[i].client : i \in 1..Len(replicaConnections)}
      primary == IF primaryClient # NoClient /\ primaryClient # client
                 THEN {primaryClient} ELSE {}
      seed == IF client # NoClient THEN {client} ELSE {}
  IN /\ transports' = CloseAll(replicas \cup primary \cup seed)
     /\ replicaConnections' = <<>>
     /\ primaryClient' = IF primary # {} THEN NoClient ELSE primaryClient
     /\ connected' = IF client # NoClient THEN FALSE ELSE connected
     /\ client' = NoClient
     /\ selections' = <<>>
     /\ UNCHANGED <<options, faults, isPrimary, currentReplicaIndex, pc, op, call, disc>>
     /\ UNCHANGED appVars

\* isConnected(): connected, and the channel of this.client READY
isConnected == connected /\ client # NoClient /\ transports[client].ready

\* the channel of an open client leaves READY while no call is under way
ChannelDown ==
  /\ \A p \in Callers : pc[p] = "idle"
  /\ \E h \in 1..Len(transports) :
        /\ transports[h].ready
        /\ transports' = [transports EXCEPT ![h].ready = FALSE]
  /\ UNCHANGED <<options, faults, client, primaryClient, replicaConnections, connected,
                 isPrimary, currentReplicaIndex, pc, op, call, disc, selections>>
  /\ UNCHANGED appVars

\* executeReadStream(): synchronous.  It throws ConnectionError unless
\* isConnected() (connected, and the seed channel READY); else it picks a read
\* client and opens the stream on it.
StreamRead(p) ==
  /\ pc[p] = "idle"
  /\ isConnected
  /\ \E s \in getReadClient :
        /\ currentReplicaIndex' = s.index
        /\ selections' = IF s.replica THEN Remember(selections, s.client)
                         ELSE selections
  /\ UNCHANGED <<options, faults, connVars, pc, op, call, disc>>
  /\ UNCHANGED appVars

(* ------------------------------ utils.ts ------------------------------ *)
\* the outcome of a check: passed, or the error it throws
Passed == [ok |-> TRUE, kind |-> "none", msg |-> ""]
Throws(kind, msg) == [ok |-> FALSE, kind |-> kind, msg |-> msg]

\* toBuffer(value).length
BufferLength(arg) == arg.len

\* what validateKey throws for a key that is out of bounds
KeyError(msg) == Throws("Error", msg)

validateKey(key) ==
  IF BufferLength(key) = 0 THEN KeyError("Key cannot be empty")
  ELSE IF BufferLength(key) > MaxKeyBytes THEN KeyError("Key cannot be larger than 1KB")
  ELSE Passed

validateValue(value) ==
  IF value.kind = "null" THEN Throws("Error", "Value cannot be null or undefined")
  ELSE IF BufferLength(value) > MaxValueBytes
  THEN Throws("Error", "Value cannot be larger than 10MB")
  ELSE Passed

\* the UTF-8 encoding of one code point
Utf8Of(cp) ==
  IF cp < 128 THEN <<cp>>
  ELSE IF cp < 2048 THEN <<192 + (cp \div 64), 128 + (cp % 64)>>
  ELSE IF cp < 65536
  THEN <<224 + (cp \div 4096), 128 + ((cp \div 64) % 64), 128 + (cp % 64)>>
  ELSE <<240 + (cp \div 262144), 128 + ((cp \div 4096) % 64),
         128 + ((cp \div 64) % 64), 128 + (cp % 64)>>

\* Buffer.from(string): the UTF-8 encoding of its code points
RECURSIVE Utf8(_)
Utf8(cps) == IF cps = <<>> THEN <<>> ELSE Utf8Of(Head(cps)) \o Utf8(Tail(cps))

\* a conversion that keeps one byte of each character
toBuffer_Latin1(arg) ==
  IF arg.kind = "buffer" THEN arg.data
  ELSE [i \in 1..Len(arg.data) |-> arg.data[i] % 256]

\* toBuffer(value): a Buffer as it is, a string as Buffer.from(value)
toBuffer(arg) == IF arg.kind = "buffer" THEN arg.data ELSE Utf8(arg.data)

\* an argument with its content: a string of the given code points, a Buffer
\* of the given bytes
TextArg(cps) == [kind |-> "string", len |-> Len(Utf8(cps)), data |-> cps]
BinArg(bytes) == [kind |-> "buffer", len |-> Len(bytes), data |-> bytes]

\* !x of JavaScript on an argument: null, undefined and '' are falsy, a
\* Buffer never is
Falsy(arg) == arg.kind = "null" \/ (arg.kind = "string" /\ arg.len = 0)

\* the first check of a list that throws, else Passed
RECURSIVE FirstFailure(_)
FirstFailure(checks) ==
  IF checks = <<>> THEN Passed
  ELSE IF ~Head(checks).ok THEN Head(checks)
  ELSE FirstFailure(Tail(checks))

(* --------------------------- transaction.ts --------------------------- *)
TxMethods == {"begin", "get", "put", "delete", "scan", "commit", "rollback"}
ServerIds == {1}     \* response.transaction_id of BeginTransaction

AlreadyCommitted == Throws("TransactionError", "Transaction already committed")
AlreadyRolledBack == Throws("TransactionError", "Transaction already rolled back")

\* a handle that never notices it has ended
EndedCheck_Never(t) == Passed

\* a handle that checks committed but not rolledBack
EndedCheck_CommittedOnly(t) == IF t.committed THEN AlreadyCommitted ELSE Passed

\* if (this.committed) throw ...; if (this.rolledBack) throw ...
EndedCheck(t) ==
  IF t.committed THEN AlreadyCommitted
  ELSE IF t.rolledBack THEN AlreadyRolledBack
  ELSE Passed

\* a handle that lets writes of a read-only transaction through
ReadonlyCheck_Never(t, m) == Passed

\* if (this.readonly) throw ..., the first statement of put and of delete
ReadonlyCheck(t, m) ==
  IF ~t.readonly THEN Passed
  ELSE IF m = "put"
  THEN Throws("TransactionError", "Cannot write in a read-only transaction")
  ELSE Throws("TransactionError", "Cannot delete in a read-only transaction")

\* errors raised inside the try block of scan are wrapped
ScanFailed(chk) ==
  IF chk.ok THEN chk ELSE Throws("TransactionError", "Scan failed: " \o chk.msg)

\* what method m of the handle does before it calls the connection: the
\* error it throws, or Passed.  scan validates options.prefix only if truthy.
TxPrecheck(t, m, key, value) ==
  CASE m = "begin" -> Passed
    [] m \in {"commit", "rollback"} -> EndedCheck(t)
    [] m = "get" -> FirstFailure(<<EndedCheck(t), validateKey(key)>>)
    [] m = "put" ->
         FirstFailure(<<ReadonlyCheck(t, m), EndedCheck(t),
                        validateKey(key), validateValue(value)>>)
    [] m = "delete" ->
         FirstFailure(<<ReadonlyCheck(t, m), EndedCheck(t), validateKey(key)>>)
    [] m = "scan" ->
         FirstFailure(<<EndedCheck(t),
                        IF Falsy(key) THEN Passed ELSE ScanFailed(validateKey(key))>>)

\* the Connection method a unary operation of the handle goes through
TxExecutor_ByKind(m) == IF m \in {"get", "scan"} THEN "read" ELSE "write"

TxExecutor(m) == "write"

\* the arguments method m takes
KeysOf(m) == IF m \in {"get", "put", "delete"} THEN inputs.keys
             ELSE IF m = "scan" THEN inputs.keys \cup {NoArg}
             ELSE {NoArg}
ValuesOf(m) == IF m = "put" THEN inputs.values ELSE {NoArg}

\* the message of the error a method wraps a failed call in
FailedTo(m) ==
  "Failed to " \o m \o
    (IF m \in {"begin", "commit", "rollback"} THEN " transaction" ELSE " value")

\* an operation ended: what its caller observes
Ended(layer, m, key, value, kind, msg, rpcs, request) ==
  [layer |-> layer, method |-> m, key |-> key, value |-> value,
   kind |-> kind, msg |-> msg, rpcs |-> rpcs, request |-> request,
   txBefore |-> tx, batchBefore |-> batch,
   answer |-> NoAnswer, returned |-> <<>>]

\* executeRead / executeWrite is entered for the operation in cur'[p]
EnterExecutor(p, which) ==
  IF which = "read" THEN EnterRead(p) ELSE EnterWrite(p)

\* the call chain of p is over: its locals are gone
Unwind(p) ==
  /\ pc' = [pc EXCEPT ![p] = "idle"]
  /\ op' = [op EXCEPT ![p] = "none"]
  /\ call' = [call EXCEPT ![p] = NoCall]
  /\ disc' = [disc EXCEPT ![p] = NoDisc]
  /\ cur' = [cur EXCEPT ![p] = NoCur]
  /\ UNCHANGED <<options, faults, connVars, currentReplicaIndex, selections, inputs, store>>

\* a stream opened on this.client whatever the method
StreamClient_Seed(which) ==
  {[client |-> client, index |-> currentReplicaIndex, replica |-> FALSE]}

\* executeReadStream / executeWriteStream, once isConnected(): the client the
\* stream is opened on, with the value left in currentReplicaIndex
StreamClient(which) ==
  IF which = "read" THEN getReadClient
  ELSE {[client |-> getWriteClient, index |-> currentReplicaIndex, replica |-> FALSE]}

\* the error the consumer of a stream of the given layer receives for error
\* e: Transaction.scan wraps it in a TransactionError, Scanner.scan in an
\* Error, and a stream taken from the Connection itself hands it over as is
StreamError(layer, e) ==
  IF layer = "tx" THEN [kind |-> "TransactionError", msg |-> "Scan failed: " \o e.msg]
  ELSE IF layer = "client" THEN [kind |-> "Error", msg |-> "Scan failed: " \o e.msg]
  ELSE [kind |-> e.kind, msg |-> e.msg]

\* executeReadStream (which = "read") / executeWriteStream (which = "write")
\* for method m of the given layer: it throws ConnectionError unless
\* isConnected() (connected, and the channel of the seed client READY), else
\* it opens one stream on the client its routing rule gives
OpenStream(p, layer, m, key, which) ==
    IF ~isConnected
    THEN /\ last' = Ended(layer, m, key, NoArg,
                          StreamError(layer, NotConnectedError).kind,
                          StreamError(layer, NotConnectedError).msg, 0, <<>>)
         /\ UNCHANGED <<connAll, tx, batch, cur, inputs, store>>
    ELSE \E s \in StreamClient(which) :
           /\ pc' = [pc EXCEPT ![p] = "stream"]
           /\ op' = [op EXCEPT ![p] = which \o "Stream"]
           /\ call' = [call EXCEPT ![p] =
                         [NoCall EXCEPT !.target = s.client, !.calls = 1]]
           /\ cur' = [cur EXCEPT ![p] =
                        [NoCur EXCEPT !.layer = layer, !.method = m, !.key = key]]
           /\ currentReplicaIndex' = s.index
           /\ selections' = IF s.replica THEN Remember(selections, s.client)
                            ELSE selections
           /\ last' = NoOutcome
           /\ UNCHANGED <<options, faults, connVars, disc, tx, batch, inputs, store>>

\* the first next() of scan() that passed its checks:
\* executeWriteStream('TxScan', request)
TxScanOpen(p, key) == OpenStream(p, "tx", "scan", key, TxExecutor("scan"))

\* a method of the Transaction handle is called
TxCall(p, m, key, value) ==
  /\ pc[p] = "idle"
  /\ cur[p].layer = "none"
  /\ LET chk == TxPrecheck(tx, m, key, value)
     IN IF ~chk.ok
        THEN /\ last' = Ended("tx", m, key, value, chk.kind, chk.msg, 0, <<>>)
             /\ UNCHANGED <<connAll, tx, batch, cur, inputs, store>>
        ELSE IF m = "scan"
        THEN TxScanOpen(p, key)
        ELSE /\ cur' = [cur EXCEPT ![p] =
                          [NoCur EXCEPT !.layer = "tx", !.method = m,
                                        !.key = key, !.value = value]]
             /\ EnterExecutor(p, TxExecutor(m))
             /\ last' = NoOutcome
             /\ UNCHANGED <<tx, batch, inputs, store>>

\* an open stream ends, or fails: for await ... catch
StreamDone(p) ==
  /\ pc[p] = "stream"
  /\ \E ok \in BOOLEAN, e \in faults :
        last' = IF ok
                THEN Ended(cur[p].layer, cur[p].method, cur[p].key, NoArg,
                           "none", "", call[p].calls, <<>>)
                ELSE Ended(cur[p].layer, cur[p].method, cur[p].key, NoArg,
                           StreamError(cur[p].layer, e).kind,
                           StreamError(cur[p].layer, e).msg,
                           call[p].calls, <<>>)
  /\ Unwind(p)
  /\ UNCHANGED <<tx, batch>>

\* a handle that counts a failed commit() or rollback() as done
AfterFailure_Ends(t, m) ==
  IF m = "commit" THEN [t EXCEPT !.committed = TRUE]
  ELSE IF m = "rollback" THEN [t EXCEPT !.rolledBack = TRUE]
  ELSE t

\* the handle after the catch block of method m: it assigns no field
AfterFailure(t, m) == t

\* executeWrite has settled and the method of the handle resumes after its
\* await: the assignment that follows it, or its catch block
TxSettle(p) ==
  /\ pc[p] = "done"
  /\ cur[p].layer = "tx"
  /\ LET m == cur[p].method
         rpcs == call[p].calls + call[p].fallbacks
         ok == Ended("tx", m, cur[p].key, cur[p].value, "none", "", rpcs, <<>>)
     IN IF call[p].result = "ok"
        THEN CASE m = "begin" ->
                    /\ \E id \in ServerIds : tx' = [tx EXCEPT !.id = id]
                    /\ last' = ok
               [] m = "commit" ->
                    /\ tx' = [tx EXCEPT !.committed = TRUE]
                    /\ last' = ok
               [] m = "rollback" ->
                    /\ tx' = [tx EXCEPT !.rolledBack = TRUE]
                    /\ last' = ok
               [] m = "get" ->
                    /\ tx' = tx
                    /\ \E found \in BOOLEAN :
                          last' = IF found THEN ok
                                  ELSE [ok EXCEPT !.kind = "KeyNotFoundError",
                                                  !.msg = "Key not found"]
               [] OTHER ->
                    /\ tx' = tx
                    /\ last' = ok
        ELSE /\ tx' = AfterFailure(tx, m)
             /\ last' = [ok EXCEPT !.kind = "TransactionError",
                                   !.msg = FailedTo(m)]
  /\ Unwind(p)
  /\ UNCHANGED batch

(* ------------------------------ batch.ts ------------------------------ *)
PutOp(key, value) == [type |-> "PUT", key |-> key, value |-> value]
DeleteOp(key) == [type |-> "DELETE", key |-> key, value |-> NoArg]

\* the body of operations.map(...) for one operation
BatchOpCheck(o) ==
  IF o.type = "PUT"
  THEN FirstFailure(<<validateKey(o.key),
                      IF Falsy(o.value)
                      THEN Throws("Error", "Value is required for PUT operations")
                      ELSE validateValue(o.value)>>)
  ELSE validateKey(o.key)

\* operations.map(...): the first operation that throws ends it
BatchValidate(ops) ==
  FirstFailure([i \in 1..Len(ops) |-> BatchOpCheck(ops[i])])

\* a batch that is cleared whether or not the call succeeded
AfterExecute_AlwaysCleared(ops, ok) == <<>>

\* this.operations after the await of executeWrite: clear() is reached only
\* if it did not throw
AfterExecute(ops, ok) == IF ok THEN <<>> ELSE ops

\* put(), delete(), clear(): synchronous, no validation
BatchAdd(p, o) ==
  /\ pc[p] = "idle"
  /\ cur[p].layer = "none"
  /\ Len(batch) < inputs.batchMax
  /\ batch' = Append(batch, o)
  /\ last' = Ended("batch", IF o.type = "PUT" THEN "put" ELSE "delete",
                    o.key, o.value, "none", "", 0, <<>>)
  /\ UNCHANGED <<connAll, tx, cur, inputs, store>>

BatchClear(p) ==
  /\ pc[p] = "idle"
  /\ cur[p].layer = "none"
  /\ batch # <<>>
  /\ batch' = <<>>
  /\ last' = Ended("batch", "clear", NoArg, NoArg, "none", "", 0, <<>>)
  /\ UNCHANGED <<connAll, tx, cur, inputs, store>>

\* execute() up to its await: nothing to do for an empty batch; else the
\* request is built from all operations, validating each, and executeWrite
\* is called once with it
BatchExecute(p) ==
  /\ pc[p] = "idle"
  /\ cur[p].layer = "none"
  /\ LET chk == BatchValidate(batch)
     IN IF Len(batch) = 0
        THEN /\ last' = Ended("batch", "execute", NoArg, NoArg, "none", "", 0, <<>>)
             /\ UNCHANGED <<connAll, tx, batch, cur, inputs, store>>
        ELSE IF ~chk.ok
        THEN /\ last' = Ended("batch", "execute", NoArg, NoArg,
                              chk.kind, chk.msg, 0, <<>>)
             /\ UNCHANGED <<connAll, tx, batch, cur, inputs, store>>
        ELSE /\ cur' = [cur EXCEPT ![p] =
                          [NoCur EXCEPT !.layer = "batch", !.method = "execute",
                                        !.request = batch]]
             /\ EnterWrite(p)
             /\ last' = NoOutcome
             /\ UNCHANGED <<tx, batch, inputs, store>>

\* executeWrite has settled and execute() resumes: catch, or clear()
BatchSettle(p) ==
  /\ pc[p] = "done"
  /\ cur[p].layer = "batch"
  /\ LET ok == call[p].result = "ok"
     IN /\ batch' = AfterExecute(batch, ok)
        /\ last' = Ended("batch", "execute", NoArg, NoArg,
                         IF ok THEN "none" ELSE "Error",
                         IF ok THEN "" ELSE "Batch execution failed",
                         call[p].calls + call[p].fallbacks, cur[p].request)
  /\ Unwind(p)
  /\ UNCHANGED tx

(* ------------------------------ client.ts ----------------------------- *)
ClientMethods == {"get", "put", "delete"}

\* validateKey / validateValue at the top of get, put and delete
ClientPrecheck(m, key, value) ==
  IF m = "put" THEN FirstFailure(<<validateKey(key), validateValue(value)>>)
  ELSE validateKey(key)

\* get goes through executeRead, put and delete through executeWrite
ClientExecutor(m) == IF m = "get" THEN "read" ELSE "write"

\* get(), put() or delete() of KevoClient is called
ClientCall(p, m, key, value) ==
  /\ pc[p] = "idle"
  /\ cur[p].layer = "none"
  /\ LET chk == ClientPrecheck(m, key, value)
     IN IF ~chk.ok
        THEN /\ last' = Ended("client", m, key, value, chk.kind, chk.msg, 0, <<>>)
             /\ UNCHANGED <<connAll, tx, batch, cur, inputs, store>>
        ELSE /\ cur' = [cur EXCEPT ![p] =
                          [NoCur EXCEPT !.layer = "client", !.method = m,
                                        !.key = key, !.value = value]]
             /\ EnterExecutor(p, ClientExecutor(m))
             /\ last' = NoOutcome
             /\ UNCHANGED <<tx, batch, inputs, store>>

\* Buffer.from(response.value): a copy of the bytes of the Uint8Array
BufferFrom(bytes) == [i \in 1..Len(bytes) |-> bytes[i] % 256]

\* a get that wraps KeyNotFoundError like every other error
GetOutcome_WrapAll(ok, response) ==
  IF response.found
  THEN [ok EXCEPT !.returned = BufferFrom(response.value), !.answer = response]
  ELSE [ok EXCEPT !.kind = "Error", !.msg = FailedTo("get"), !.answer = response]

\* get, after its await: if (!response.found) throw new KeyNotFoundError,
\* which the catch block rethrows as it is; else Buffer.from(response.value)
GetOutcome(ok, response) ==
  IF response.found
  THEN [ok EXCEPT !.returned = BufferFrom(response.value), !.answer = response]
  ELSE [ok EXCEPT !.kind = "KeyNotFoundError", !.msg = "Key not found",
                  !.answer = response]

\* executeRead / executeWrite has settled and the method resumes, for a get
\* with the response it awaited
ClientResume(p, response) ==
  /\ pc[p] = "done"
  /\ cur[p].layer = "client"
  /\ LET m == cur[p].method
         ok == Ended("client", m, cur[p].key, cur[p].value, "none", "",
                     call[p].calls + call[p].fallbacks, <<>>)
     IN IF call[p].result = "ok"
        THEN IF m = "get"
             THEN last' = GetOutcome(ok, response)
             ELSE last' = ok
        ELSE last' = [ok EXCEPT !.kind = "Error",
                                !.msg = FailedTo(m)]
  /\ Unwind(p)
  /\ UNCHANGED <<tx, batch>>

\* the method resumes, a Get having found the key or not
ClientSettle(p) ==
  \E found \in BOOLEAN : ClientResume(p, [NoAnswer EXCEPT !.found = found])

(* ----------------------------- scanner.ts ----------------------------- *)
\* the checks of Scanner.scan before it opens the stream: a prefix that is
\* not falsy goes through validateKey, whose error the catch block wraps
ScanPrecheck(key) ==
  IF Falsy(key) \/ validateKey(key).ok THEN Passed
  ELSE Throws("Error", "Scan failed: " \o validateKey(key).msg)

\* the first next() of KevoClient.scan(): Scanner.scan calls
\* executeReadStream('Scan', request), or executeStream('Scan', request),
\* which takes the same path
ClientScan(p, key) ==
  /\ pc[p] = "idle"
  /\ cur[p].layer = "none"
  /\ LET chk == ScanPrecheck(key)
     IN IF ~chk.ok
        THEN /\ last' = Ended("client", "scan", key, NoArg, chk.kind, chk.msg, 0, <<>>)
             /\ UNCHANGED <<connAll, tx, batch, cur, inputs, store>>
        ELSE OpenStream(p, "client", "scan", key, "read")

(* ------------- connection.ts: executeWithRetry / executeStream -------- *)
\* the unary and the streaming methods of the KevoService clients
UnaryMethods ==
  {"Get", "GetStats", "GetNodeInfo", "Put", "Delete", "BatchWrite", "Compact",
   "BeginTransaction", "CommitTransaction", "RollbackTransaction",
   "TxGet", "TxPut", "TxDelete"}
StreamingMethods == {"Scan", "TxScan"}

\* a table that takes GetStats for a write
readMethods_NoStats == {"Get", "Scan", "GetNodeInfo"}

\* executeWithRetry: const readMethods = ['Get', 'GetStats', 'Scan', 'GetNodeInfo']
readMethods == {"Get", "GetStats", "Scan", "GetNodeInfo"}

\* executeStream: const readMethods = ['Scan']
streamReadMethods == {"Scan"}

\* const isRead = readMethods.includes(method)
IsRead(table, method) == IF method \in table THEN "read" ELSE "write"

\* executeWithRetry(method, request) is called on the Connection
ExecuteWithRetry(p, method) ==
  /\ cur[p].layer = "none"
  /\ cur' = [cur EXCEPT ![p] =
               [NoCur EXCEPT !.layer = "connection", !.method = method]]
  /\ EnterExecutor(p, IsRead(readMethods, method))
  /\ last' = NoOutcome
  /\ UNCHANGED <<tx, batch, inputs, store>>

\* the promise of executeWithRetry has settled: its caller has the response
\* or the error executeRead / executeWrite threw
ExecuteSettle(p) ==
  /\ pc[p] = "done"
  /\ cur[p].layer = "connection"
  /\ last' = Ended("connection", cur[p].method, NoArg, NoArg,
                   IF call[p].result = "ok" THEN "none" ELSE call[p].thrown.kind,
                   IF call[p].result = "ok" THEN "" ELSE call[p].thrown.msg,
                   call[p].calls + call[p].fallbacks, <<>>)
  /\ Unwind(p)
  /\ UNCHANGED <<tx, batch>>

\* executeStream(method, request) is called on the Connection
ExecuteStream(p, method) ==
  /\ pc[p] = "idle"
  /\ cur[p].layer = "none"
  /\ OpenStream(p, "connection", method, NoArg, IsRead(streamReadMethods, method))

\* the name of the remote method an operation under way is for: the literal
\* its layer passes to the Connection
GrpcName(c) ==
  CASE c.layer = "connection" -> c.method
    [] c.layer = "client" ->
         (CASE c.method = "get" -> "Get" [] c.method = "put" -> "Put"
            [] c.method = "delete" -> "Delete" [] c.method = "scan" -> "Scan"
            [] OTHER -> "none")
    [] c.layer = "tx" ->
         (CASE c.method = "begin" -> "BeginTransaction"
            [] c.method = "commit" -> "CommitTransaction"
            [] c.method = "rollback" -> "RollbackTransaction"
            [] c.method = "get" -> "TxGet" [] c.method = "put" -> "TxPut"
            [] c.method = "delete" -> "TxDelete" [] c.method = "scan" -> "TxScan"
            [] OTHER -> "none")
    [] c.layer = "batch" -> "BatchWrite"
    [] OTHER -> "none"

(* ------------------------- the cluster's store ------------------------ *)
\* the node a client is connected to
NodeOf(h) == transports[h].address

\* the request get, put or delete builds from its arguments
RequestOf(c) ==
  [method |-> c.method, key |-> toBuffer(c.key),
   value |-> IF c.method = "put" THEN toBuffer(c.value) ELSE <<>>]

\* the nodes of the cluster, each with a store of its own
Nodes == {SeedAddress, PrimaryAddress} \cup ReplicaAddresses
Absent == [found |-> FALSE, value |-> <<>>]
NeverPut == [state |-> "never", kind |-> "null", data |-> <<>>]

\* a fresh cluster with the given primary: no node holds a key, and no write
\* was ever acknowledged
NewCluster(primary, ins) ==
  LET keys == {toBuffer(k) : k \in ins.keys}
  IN [primary |-> primary,
      data |-> [n \in Nodes |-> [k \in keys |-> Absent]],
      acked |-> [k \in keys |-> NeverPut]]

\* the cluster after node n has applied request r, made with arguments c: a
\* Put stores the value and a Delete removes the key; the write acknowledged
\* last for the key is kept with the argument it was called with
Applied(cl, n, r, c) ==
  CASE r.method = "put" ->
         [cl EXCEPT !.data[n][r.key] = [found |-> TRUE, value |-> r.value],
                    !.acked[r.key] = [state |-> "put", kind |-> c.value.kind,
                                      data |-> c.value.data]]
    [] r.method = "delete" ->
         [cl EXCEPT !.data[n][r.key] = Absent,
                    !.acked[r.key] = [NeverPut EXCEPT !.state = "deleted"]]
    [] OTHER -> cl

\* the response of node n to request r: for a Get what n holds for the key
AnswerOf(cl, n, r) ==
  IF r.method = "get"
  THEN [found |-> cl.data[n][r.key].found, value |-> cl.data[n][r.key].value,
        node |-> n]
  ELSE NoAnswer

\* the routed invocation of a get, put or delete completes: the node of the
\* target client has answered it (only the primary accepts a write), or the
\* call has failed and left the node as it was
ServeDone(p) ==
  /\ pc[p] = "invoke"
  /\ cur[p].layer = "client"
  /\ LET n == NodeOf(call[p].target)
         r == RequestOf(cur[p])
     IN \E ok \in BOOLEAN, e \in faults :
          /\ ok => (r.method = "get" \/ n = store.primary)
          /\ InvokeResult(p, ok, e)
          /\ store' = IF ok THEN Applied(store, n, r, cur[p]) ELSE store
          /\ cur' = IF ok THEN [cur EXCEPT ![p].answer = AnswerOf(store, n, r)]
                    ELSE cur
  /\ UNCHANGED <<tx, batch, last, inputs>>

\* a node the client has a channel to catches up with the primary
Replicate ==
  /\ \E h \in 1..Len(transports) :
        LET n == NodeOf(h)
        IN /\ n # store.primary
           /\ store.data[n] # store.data[store.primary]
           /\ store' = [store EXCEPT !.data[n] = store.data[store.primary]]
  /\ UNCHANGED <<connAll, tx, batch, cur, last, inputs>>

\* get, put or delete resumes with the response the node gave
StoreSettle(p) == ClientResume(p, cur[p].answer)

(* --------------------------- specifications --------------------------- *)
Step(p) ==
  \/ StartConnect(p)
  \/ LoadDone(p)
  \/ ReadyDone(p)
  \/ InfoDone(p)
  \/ PrimaryConnDone(p)
  \/ ReplicaConnDone(p)
  \/ StartRead(p)
  \/ StartWrite(p)
  \/ Begin(p)
  \/ InvokeDone(p)
  \/ FallbackDone(p)
  \/ SleepDone(p)
  \/ Return(p)
  \/ StreamRead(p)

\* one call chain at a time; disconnect() may be called at any moment
Next ==
  \/ Step(MainCaller)
  \/ Disconnect

\* every retry configuration
Spec == Init /\ [][Next]_vars

\* every routing configuration
SpecRouting == InitRouting /\ [][Next]_vars

\* what a pending call of p waits for: the steps of its auto-connect, the
\* completion of an invocation, the end of a backoff sleep, and the code
\* that runs right after either
Progress(p) ==
  \/ LoadDone(p)
  \/ ReadyDone(p)
  \/ InfoDone(p)
  \/ PrimaryConnDone(p)
  \/ ReplicaConnDone(p)
  \/ Begin(p)
  \/ InvokeDone(p)
  \/ FallbackDone(p)
  \/ SleepDone(p)

InitLive ==
  /\ options \in RetryOptions
  /\ faults = FewFaults
  /\ Constructed
  /\ AppConstructed(FALSE, FewInputs)

\* every invocation completes, every sleep ends, every step of connect()
\* settles (the connect timer bounds the wait for the seed)
SpecLive == InitLive /\ [][Next]_vars /\ WF_vars(Progress(MainCaller))

\* a read issued on a connected client, unary or streaming
ReadStep(p) ==
  \/ connected /\ StartRead(p)
  \/ Begin(p)
  \/ InvokeDone(p)
  \/ FallbackDone(p)
  \/ SleepDone(p)
  \/ Return(p)
  \/ StreamRead(p)

\* reads of other call chains overlap whatever the main one does
NextConcurrent ==
  \/ Step(MainCaller)
  \/ \E p \in Callers \ {MainCaller} : ReadStep(p)
  \/ Disconnect

SpecConcurrent == InitConcurrent /\ [][NextConcurrent]_vars

\* a connect() in flight on call chain p, by itself or as an auto-connect
Connecting(p) ==
  pc[p] \in {"loading", "waitReady", "nodeInfo", "connPrimary", "connReplica"}

\* disconnect() is called only while no connect() is in flight
NextSequential ==
  \/ Step(MainCaller)
  \/ ~Connecting(MainCaller) /\ Disconnect

SpecSequential == InitRouting /\ [][NextSequential]_vars

\* the connection steps a Transaction method can set off
ConnStep(p) ==
  \/ StartConnect(p)
  \/ LoadDone(p)
  \/ ReadyDone(p)
  \/ InfoDone(p)
  \/ PrimaryConnDone(p)
  \/ ReplicaConnDone(p)
  \/ Begin(p)
  \/ InvokeDone(p)
  \/ SleepDone(p)
  \/ Return(p)

\* the steps of an executeRead / executeWrite call and of its auto-connect
\* when discovery has no endpoint to connect to
CallStep(p) ==
  \/ LoadDone(p)
  \/ ReadyDone(p)
  \/ InfoDone(p)
  \/ Begin(p)
  \/ InvokeDone(p)
  \/ SleepDone(p)

\* a cluster that only ever fails calls as unavailable
OneFault ==
  {[kind |-> "Error", msg |-> "remote", code |-> UNAVAILABLE, readOnly |-> FALSE]}

\* reads preferring replicas, writes routed to the primary or not
TxRoutings == {[DefaultRouting EXCEPT !.autoRouteWrites = w] : w \in BOOLEAN}

InitTx ==
  /\ options \in {MakeOptions(1, 1, r) : r \in TxRoutings}
  /\ faults = OneFault
  /\ Constructed
  /\ \E readOnly \in BOOLEAN : AppConstructed(readOnly, FewInputs)

\* one Transaction handle, its methods called one after the other
NextTx ==
  \/ \E m \in TxMethods : \E key \in KeysOf(m), value \in ValuesOf(m) :
        TxCall(MainCaller, m, key, value)
  \/ TxSettle(MainCaller)
  \/ StreamDone(MainCaller)
  \/ ConnStep(MainCaller)
  \/ Disconnect

SpecTx == InitTx /\ [][NextTx]_vars

InitBatch ==
  /\ options = MakeOptions(1, 1, DefaultRouting)
  /\ faults = OneFault
  /\ Constructed
  /\ AppConstructed(FALSE, BatchInputs)

\* one BatchWriter, its methods called one after the other
NextBatch ==
  \/ \E key \in inputs.keys, value \in inputs.values :
        BatchAdd(MainCaller, PutOp(key, value))
  \/ \E key \in inputs.keys : BatchAdd(MainCaller, DeleteOp(key))
  \/ BatchClear(MainCaller)
  \/ BatchExecute(MainCaller)
  \/ BatchSettle(MainCaller)
  \/ ConnStep(MainCaller)
  \/ Disconnect

SpecBatch == InitBatch /\ [][NextBatch]_vars

\* put() and delete() are synchronous: another call chain may call them on
\* the same BatchWriter while an execute() awaits executeWrite
NextBatchOverlap ==
  \/ NextBatch
  \/ \E q \in Callers \ {MainCaller} :
        \/ \E key \in inputs.keys, value \in inputs.values :
              BatchAdd(q, PutOp(key, value))
        \/ \E key \in inputs.keys : BatchAdd(q, DeleteOp(key))

SpecBatchOverlap == InitBatch /\ [][NextBatchOverlap]_vars

\* no auto-routing: discovery records the role and connects to nothing
NoRouting == [DefaultRouting EXCEPT !.autoRouteReads = FALSE, !.autoRouteWrites = FALSE]

InitKV ==
  /\ options = MakeOptions(1, 1, NoRouting)
  /\ faults = OneFault
  /\ Constructed
  /\ \E uses \in {{"client", "tx"}, {"batch"}} : AppConstructed(FALSE, AllInputs(uses))

\* every operation that takes a key or a value, with every boundary
\* argument, on a client that is connected on demand and never disconnected
NextKV ==
  \/ /\ "client" \in inputs.uses
     /\ \E m \in ClientMethods : \E key \in inputs.keys, value \in ValuesOf(m) :
          ClientCall(MainCaller, m, key, value)
  \/ ClientSettle(MainCaller)
  \/ /\ "tx" \in inputs.uses
     /\ \E m \in {"get", "put", "delete"} :
          \E key \in KeysOf(m), value \in ValuesOf(m) : TxCall(MainCaller, m, key, value)
  \/ TxSettle(MainCaller)
  \/ /\ "batch" \in inputs.uses
     /\ \/ \E key \in inputs.keys, value \in inputs.values :
             BatchAdd(MainCaller, PutOp(key, value))
        \/ \E key \in inputs.keys : BatchAdd(MainCaller, DeleteOp(key))
        \/ BatchClear(MainCaller)
        \/ BatchExecute(MainCaller)
  \/ BatchSettle(MainCaller)
  \/ CallStep(MainCaller)

SpecKV == InitKV /\ [][NextKV]_vars

\* one call chain on a connection whose channels may leave READY between
\* its operations
NextChannel ==
  \/ Step(MainCaller)
  \/ Disconnect
  \/ ChannelDown

SpecChannel == InitConcurrent /\ [][NextChannel]_vars

\* the steps of a call without retries, of its auto-connect and of discovery
DispatchStep(p) ==
  \/ LoadDone(p)
  \/ ReadyDone(p)
  \/ InfoDone(p)
  \/ PrimaryConnDone(p)
  \/ ReplicaConnDone(p)
  \/ Begin(p)
  \/ InvokeDone(p)
  \/ FallbackDone(p)

\* the defaults with each selection strategy, and no auto-routing
DispatchRoutings ==
  {[DefaultRouting EXCEPT !.replicaSelectionStrategy = s] : s \in Strategies}
    \cup {NoRouting}

InitDispatch ==
  /\ options \in {MakeOptions(0, 1, r) : r \in DispatchRoutings}
  /\ faults = FewFaults
  /\ Constructed
  /\ AppConstructed(FALSE, FewInputs)

\* every remote method called through the dispatching methods of the
\* Connection, and the scans of the client and of a transaction
NextDispatch ==
  \/ \E m \in UnaryMethods \cup StreamingMethods : ExecuteWithRetry(MainCaller, m)
  \/ ExecuteSettle(MainCaller)
  \/ \E m \in StreamingMethods : ExecuteStream(MainCaller, m)
  \/ \E key \in KeysOf("scan") : ClientScan(MainCaller, key)
  \/ \E key \in KeysOf("scan") : TxCall(MainCaller, "scan", key, NoArg)
  \/ StreamDone(MainCaller)
  \/ DispatchStep(MainCaller)
  \/ Disconnect

SpecDispatch == InitDispatch /\ [][NextDispatch]_vars

\* a key as a string and as a Buffer of the same bytes; a text value with a
\* character of two bytes, and a binary value that is not valid UTF-8
StoreInputs ==
  [keys |-> {TextArg(<<97>>), BinArg(<<97>>)},
   values |-> {TextArg(<<233>>), BinArg(<<0, 255>>)},
   batchMax |-> 1, uses |-> {"client"}]

InitStore ==
  /\ options \in {MakeOptions(0, 1, r) : r \in Routings}
  /\ faults = OneFault
  /\ Constructed
  /\ tx = NewTransaction(FALSE)
  /\ batch = <<>>
  /\ cur = [p \in Callers |-> NoCur]
  /\ last = NoOutcome
  /\ inputs = StoreInputs
  /\ store \in {NewCluster(a, StoreInputs) : a \in {SeedAddress, PrimaryAddress}}

\* get, put and delete of one client, one after the other, on a cluster whose
\* primary is the seed or the node the seed reports, under every routing
\* configuration
NextStore ==
  \/ \E m \in ClientMethods : \E key \in inputs.keys, value \in ValuesOf(m) :
        ClientCall(MainCaller, m, key, value)
  \/ StoreSettle(MainCaller)
  \/ ServeDone(MainCaller)
  \/ Replicate
  \/ LoadDone(MainCaller)
  \/ ReadyDone(MainCaller)
  \/ InfoDone(MainCaller)
  \/ PrimaryConnDone(MainCaller)
  \/ ReplicaConnDone(MainCaller)
  \/ Begin(MainCaller)

SpecStore == InitStore /\ [][NextStore]_vars

(* ============================== claims ================================ *)
Calls == {p \in Callers : op[p] \in {"read", "write"}}

\* the call of p has ended and every invocation it made failed with a
\* retriable status, the client having stayed connected
FailedOnlyRetriably(p) ==
  /\ pc[p] = "done"
  /\ call[p].calls >= 1
  /\ call[p].oks = 0
  /\ call[p].onlyRetriable
  /\ call[p].thrown.kind # "ConnectionError"

(* C1, as stated: in one executeRead/executeWrite call the routed endpoint *)
(* is invoked at most maxRetries+1 times, and if every invocation fails    *)
(* with a retriable status exactly maxRetries+1 invocations occur and the  *)
(* call fails.                                                             *)
C1_AsStated ==
  \A p \in Calls :
    /\ call[p].calls <= options.maxRetries + 1
    /\ FailedOnlyRetriably(p) =>
         call[p].calls = options.maxRetries + 1 /\ call[p].result = "error"

(* C1, amended: the routed endpoint is invoked at most maxRetries+1 times; *)
(* if the client stays connected and every invocation fails with a         *)
(* retriable status and, in executeWrite, with a message that does not say *)
(* read-only, then exactly maxRetries+1 invocations of the routed endpoint *)
(* occur and the call fails.                                               *)
C1_RetryBudget ==
  \A p \in Calls :
    /\ call[p].calls <= options.maxRetries + 1
    /\ (FailedOnlyRetriably(p) /\ ~(op[p] = "write" /\ call[p].roMessage)) =>
         call[p].calls = options.maxRetries + 1 /\ call[p].result = "error"

C1_Witness ==
  \E p \in Calls :
    /\ FailedOnlyRetriably(p)
    /\ options.maxRetries >= 2
    /\ call[p].calls = options.maxRetries + 1
    /\ call[p].result = "error"

(* C2: once an invocation succeeds the call is over: it has returned that  *)
(* invocation's response, the invocations made are its k failures plus the *)
(* one success, and no sleep follows the success (one sleep per attempt    *)
(* that was retried).                                                      *)
C2_SuccessEndsCall ==
  \A p \in Calls :
    call[p].oks >= 1 =>
      /\ call[p].oks = 1
      /\ pc[p] = "done"
      /\ call[p].result = "ok"
      /\ call[p].response = call[p].lastResponse
      /\ call[p].response.n = call[p].failures + 1
      /\ call[p].calls + call[p].fallbacks = call[p].failures + 1
      /\ Len(call[p].sleeps) = call[p].attempt
      /\ call[p].attempt <= options.maxRetries

\* two retriable failures, then a success on the third invocation
C2_Witness ==
  \E p \in Calls :
    /\ call[p].result = "ok"
    /\ call[p].failures = 2
    /\ call[p].calls = 3
    /\ call[p].onlyRetriable
    /\ Len(call[p].sleeps) = 2

(* C3: the sleep after failed attempt i (from 0) is retryDelay * 2^i, the  *)
(* delays of one call increase strictly, and exactly one sleep separates   *)
(* two consecutive attempts.                                               *)
C3_ExponentialBackoff ==
  \A p \in Calls :
    LET s == call[p].sleeps
    IN /\ \A i \in 1..Len(s) : s[i] = options.retryDelay * 2^(i - 1)
       /\ \A i \in 2..Len(s) : s[i] > s[i - 1]
       /\ pc[p] \in {"invoke", "fallback"} => Len(s) = call[p].attempt
       /\ pc[p] = "sleep" => Len(s) = call[p].attempt + 1
       /\ call[p].calls \in {Len(s), Len(s) + 1}

C3_Witness ==
  \E p \in Calls :
    /\ pc[p] = "invoke"
    /\ call[p].attempt = 3
    /\ Len(call[p].sleeps) = 3
    /\ options.retryDelay = 2

\* the call has used up its retries: it failed on attempt maxRetries with a
\* retriable status
Exhausted(p) ==
  /\ pc[p] = "done"
  /\ call[p].result = "error"
  /\ call[p].attempt = options.maxRetries
  /\ call[p].thrown.kind = "Error"
  /\ call[p].thrown.code \in {UNAVAILABLE, INTERNAL, RESOURCE_EXHAUSTED, DEADLINE_EXCEEDED}

(* C4, as stated: a call that exhausts its N = maxRetries retries slept    *)
(* retryDelay * (2^(N+1) - 1) in total.                                    *)
C4_AsStated ==
  \A p \in Calls :
    Exhausted(p) =>
      SumSeq(call[p].sleeps) = options.retryDelay * (2^(options.maxRetries + 1) - 1)

(* C4, amended: a call that exhausts its N = maxRetries retries slept      *)
(* retryDelay * (2^N - 1) in total (N sleeps, none after the last attempt).*)
C4_TotalBackoff ==
  \A p \in Calls :
    Exhausted(p) =>
      /\ SumSeq(call[p].sleeps) = options.retryDelay * (2^options.maxRetries - 1)
      /\ Len(call[p].sleeps) = options.maxRetries

C4_Witness ==
  \E p \in Calls :
    /\ Exhausted(p)
    /\ options.maxRetries = 3
    /\ options.retryDelay = 2
    /\ SumSeq(call[p].sleeps) = 14

\* the invocation of p's current attempt failed with e = call[p].error, a
\* terminal error: a status outside the retriable set, or no status at all
FailedTerminally(p) ==
  /\ call[p].error.kind = "Error"
  /\ call[p].error.code \notin {UNAVAILABLE, INTERNAL, RESOURCE_EXHAUSTED, DEADLINE_EXCEEDED}

\* no backoff sleep and no further routed invocation in the current attempt
NothingAfterFailure(p) ==
  /\ Len(call[p].sleeps) = call[p].attempt
  /\ call[p].calls = call[p].attempt + 1

(* C5, as stated: an invocation that fails with a terminal error is        *)
(* surfaced immediately: the call has failed, with no backoff sleep and no *)
(* retry, whatever maxRetries is.                                          *)
C5_AsStated ==
  \A p \in Calls :
    FailedTerminally(p) =>
      /\ pc[p] = "done"
      /\ call[p].result = "error"
      /\ ~call[p].viaPrimary
      /\ NothingAfterFailure(p)

(* C5, amended: an invocation that fails with a terminal error ends the    *)
(* call with no backoff sleep and no further invocation on the routed      *)
(* endpoint.  executeWrite raises at once (ReadOnlyError when the message  *)
(* says read-only, else the error).  executeRead raises the error at once, *)
(* except that for a read-only-classified error with a primary client      *)
(* known it first invokes the primary once: the response is returned if    *)
(* that succeeds, the original error raised if not.                        *)
C5_TerminalNotRetried ==
  \A p \in Calls :
    FailedTerminally(p) =>
      /\ NothingAfterFailure(p)
      /\ IF call[p].viaPrimary
         THEN /\ op[p] = "read"
              /\ call[p].error.readOnly \/ call[p].error.code = FAILED_PRECONDITION
              /\ \/ pc[p] = "fallback"
                 \/ pc[p] = "done" /\ call[p].result = "ok"
                 \/ pc[p] = "done" /\ call[p].result = "error"
                    /\ call[p].thrown = call[p].error
         ELSE /\ pc[p] = "done"
              /\ call[p].result = "error"
              /\ call[p].thrown =
                   IF op[p] = "write" /\ call[p].error.readOnly
                   THEN ReadOnlyErrorValue ELSE call[p].error

\* a terminal error on the first attempt of a call that had retries left
C5_Witness ==
  \E p \in Calls :
    /\ FailedTerminally(p)
    /\ pc[p] = "done"
    /\ call[p].thrown.code = PERMISSION_DENIED
    /\ call[p].calls = 1
    /\ call[p].sleeps = <<>>
    /\ options.maxRetries = 3

(* C6: an executeWrite invocation that fails with an error executeWrite    *)
(* classifies as read-only (its message contains 'read-only'/'readonly')   *)
(* fails the call with ReadOnlyError at once: no further invocation on any *)
(* endpoint, no backoff sleep, the remaining attempts unused.              *)
C6_WriteReadOnlyImmediate ==
  \A p \in Calls :
    (op[p] = "write" /\ call[p].error.kind = "Error" /\ call[p].error.readOnly) =>
      /\ pc[p] = "done"
      /\ call[p].result = "error"
      /\ call[p].thrown.kind = "ReadOnlyError"
      /\ call[p].fallbacks = 0
      /\ NothingAfterFailure(p)

\* a retriable status with a read-only message, retries left
C6_Witness ==
  \E p \in Calls :
    /\ op[p] = "write"
    /\ call[p].error.readOnly
    /\ call[p].error.code = UNAVAILABLE
    /\ call[p].thrown.kind = "ReadOnlyError"
    /\ call[p].attempt = 1
    /\ options.maxRetries = 3

(* C7: when an executeRead invocation fails with a read-only/stale error   *)
(* (message 'read-only'/'readonly', or FAILED_PRECONDITION) and a primary  *)
(* client is known, the next invocation of the call is made on the primary *)
(* client, in the same step: no sleep in between, the attempt counter      *)
(* unchanged; and if that invocation succeeds its response is returned.    *)
C7_ReadFallsBackToPrimary ==
  [][\A p \in Callers :
       /\ ( /\ op[p] = "read"
            /\ pc[p] = "invoke"
            /\ call'[p].failures = call[p].failures + 1
            /\ call'[p].error.readOnly \/ call'[p].error.code = FAILED_PRECONDITION
            /\ primaryClient # NoClient )
          => /\ pc'[p] = "fallback"
             /\ call'[p].target = primaryClient
             /\ call'[p].fallbacks = call[p].fallbacks + 1
             /\ call'[p].calls = call[p].calls
             /\ call'[p].attempt = call[p].attempt
             /\ call'[p].sleeps = call[p].sleeps
       /\ ( /\ pc[p] = "fallback"
            /\ call'[p].oks = call[p].oks + 1 )
          => /\ pc'[p] = "done"
             /\ call'[p].result = "ok"
             /\ call'[p].response = [by |-> call[p].target,
                                     n |-> call[p].calls + call[p].fallbacks]
             /\ call'[p].sleeps = call[p].sleeps
    ]_vars

\* a read answered by the primary after a FAILED_PRECONDITION from the seed
C7_Witness ==
  \E p \in Calls :
    /\ op[p] = "read"
    /\ call[p].result = "ok"
    /\ call[p].viaPrimary
    /\ call[p].error.code = FAILED_PRECONDITION
    /\ ~call[p].error.readOnly
    /\ call[p].response.by = primaryClient
    /\ primaryClient # NoClient
    /\ call[p].sleeps = <<>>

\* the clients of the connected replicas
ReplicaClients ==
  {replicaConnections[i].client :
     i \in {j \in 1..Len(replicaConnections) : replicaConnections[j].connected}}

\* p issues the invocation of an attempt in this step
Issues(p) == pc[p] \in {"begin", "sleep"} /\ pc'[p] = "invoke"

(* C8: a read is routed to the originally-connected client when            *)
(* autoRouteReads is off or no replica is connected, and when the          *)
(* originally-connected node is itself a replica; otherwise, with          *)
(* preferReplica, to a connected replica chosen by selectReplica (or the   *)
(* originally-connected client if there is none), and without              *)
(* preferReplica to the originally-connected client.                       *)
C8_ReadRouting ==
  [][\A p \in Callers :
       (op[p] = "read" /\ Issues(p)) =>
         IF ~options.autoRouteReads \/ Len(replicaConnections) = 0
         THEN call'[p].target = client
         ELSE IF ~isPrimary
         THEN call'[p].target = client
         ELSE IF options.preferReplica
         THEN IF ReplicaClients = {} THEN call'[p].target = client
              ELSE call'[p].target \in ReplicaClients
         ELSE call'[p].target = client
    ]_vars

(* C9: a write is routed to the originally-connected client when           *)
(* autoRouteWrites is off or the client is connected to the primary;       *)
(* otherwise to the discovered primary client if there is one, else to the *)
(* originally-connected client; when the client is not connected the       *)
(* attempt makes no invocation and the call fails with ConnectionError.    *)
C9_WriteRouting ==
  [][\A p \in Callers :
       (op[p] = "write" /\ pc[p] \in {"begin", "sleep"} /\ pc'[p] # pc[p]) =>
         IF connected
         THEN /\ pc'[p] = "invoke"
              /\ call'[p].target =
                    IF ~options.autoRouteWrites \/ isPrimary THEN client
                    ELSE IF primaryClient # NoClient THEN primaryClient
                    ELSE client
              /\ call'[p].target # NoClient
         ELSE /\ pc'[p] = "done"
              /\ call'[p].result = "error"
              /\ call'[p].thrown.kind = "ConnectionError"
              /\ call'[p].calls = IF pc[p] = "begin" THEN 0 ELSE call[p].calls
    ]_vars

\* a write in flight on the discovered primary, the seed being a replica
C9_Witness ==
  \E p \in Calls :
    /\ op[p] = "write"
    /\ pc[p] = "invoke"
    /\ connected
    /\ ~isPrimary
    /\ options.autoRouteWrites
    /\ primaryClient \notin {NoClient, client}
    /\ call[p].target = primaryClient

(* C10: with round_robin and an unchanged set of N connected replicas, any *)
(* N consecutive selections are N different replicas and the selection N   *)
(* places later is the same again, in the one sequence of the selections   *)
(* made by all reads, unary or streaming, of all callers.                  *)
C10_RoundRobinCycle ==
  (options.replicaSelectionStrategy = "round_robin" /\ Len(replicaConnections) >= 1) =>
    LET N == Len(replicaConnections)
        L == Len(selections)
    IN /\ \A i \in 1..L : selections[i] \in ReplicaClients
       /\ \A i \in 1..L : \A j \in (i + 1)..L :
             j - i < N => selections[i] # selections[j]
       /\ \A i \in 1..(L - N) : selections[i + N] = selections[i]

\* two replicas, two full cycles selected, reads of two callers in flight
C10_Witness ==
  /\ options.replicaSelectionStrategy = "round_robin"
  /\ Len(replicaConnections) = 2
  /\ Len(selections) = 4
  /\ \A p \in Callers : op[p] = "read" /\ pc[p] = "invoke"
  /\ \E p, q \in Callers : call[p].target # call[q].target

\* the client of the connected replica that no other connected replica
\* precedes in the given order of addresses
SmallestReplicaClients(Before(_, _)) ==
  {replicaConnections[i].client :
     i \in {k \in 1..Len(replicaConnections) :
              /\ replicaConnections[k].connected
              /\ \A j \in 1..Len(replicaConnections) :
                    replicaConnections[j].connected =>
                      ~Before(replicaConnections[j].address,
                              replicaConnections[k].address)}}

\* with strategy sequential: every selection recorded for the present
\* replica set, and the target of a read attempt being issued to a replica,
\* is the smallest replica in the given order, and the step that issues it
\* leaves the replica map and the round-robin cursor as they were
SequentialPicks(Before(_, _)) ==
  options.replicaSelectionStrategy = "sequential" =>
    /\ \A i \in 1..Len(selections') :
          selections'[i] \in SmallestReplicaClients(Before)'
    /\ currentReplicaIndex' = currentReplicaIndex
    /\ \A p \in Callers :
          (op[p] = "read" /\ Issues(p)) =>
            /\ replicaConnections' = replicaConnections
            /\ call'[p].target \in ReplicaClients =>
                  call'[p].target \in SmallestReplicaClients(Before)

TxEnded(ms) == last.layer = "tx" /\ last.method \in ms

AfterEnd == {"get", "put", "delete", "scan", "commit", "rollback"}

(* C12, as stated: once commit() has succeeded, every get, put, delete,    *)
(* scan, commit and rollback on the handle, read-only or not, fails with a *)
(* TransactionError saying already committed and makes no network call;    *)
(* likewise after a successful rollback(), saying already rolled back.     *)
C12_AsStated ==
  TxEnded(AfterEnd) =>
    /\ last.txBefore.committed =>
          /\ last.kind = "TransactionError"
          /\ last.msg = "Transaction already committed"
          /\ last.rpcs = 0
    /\ last.txBefore.rolledBack =>
          /\ last.kind = "TransactionError"
          /\ last.msg = "Transaction already rolled back"
          /\ last.rpcs = 0

(* C12, amended: once commit() or rollback() has succeeded, every get,     *)
(* put, delete, scan, commit and rollback on the handle fails with a       *)
(* TransactionError and makes no network call; the message says already    *)
(* committed (resp. already rolled back), except for put and delete on a   *)
(* read-only handle, whose message says that a read-only transaction       *)
(* cannot write (resp. delete).                                            *)
C12_EndedHandleRejects ==
  (TxEnded(AfterEnd) /\ (last.txBefore.committed \/ last.txBefore.rolledBack)) =>
    /\ last.kind = "TransactionError"
    /\ last.rpcs = 0
    /\ last.msg =
          IF last.txBefore.readonly /\ last.method = "put"
          THEN "Cannot write in a read-only transaction"
          ELSE IF last.txBefore.readonly /\ last.method = "delete"
          THEN "Cannot delete in a read-only transaction"
          ELSE IF last.txBefore.committed THEN "Transaction already committed"
          ELSE "Transaction already rolled back"

\* a scan refused on a handle that was begun and then committed
C12_Witness ==
  /\ TxEnded({"scan"})
  /\ tx.committed
  /\ tx.id \in ServerIds
  /\ last.msg = "Transaction already committed"
  /\ last.rpcs = 0

(* C13: on a read-only transaction put and delete always fail with         *)
(* TransactionError before any network call, leaving committed and         *)
(* rolledBack as they were, while get and scan are not refused for the     *)
(* handle being read-only.                                                 *)
C13_ReadOnlyRejectsWrites ==
  (last.layer = "tx" /\ last.txBefore.readonly) =>
    /\ last.method \in {"put", "delete"} =>
          /\ last.kind = "TransactionError"
          /\ last.rpcs = 0
          /\ tx = last.txBefore
    /\ last.method \in {"get", "scan"} =>
          /\ last.msg \notin {"Cannot write in a read-only transaction",
                               "Cannot delete in a read-only transaction"}
          /\ (last.kind = "TransactionError" /\ last.rpcs = 0) =>
                \/ last.txBefore.committed \/ last.txBefore.rolledBack
                \/ last.msg \in {FailedTo("get"), "Scan failed: Key cannot be larger than 1KB",
                                  "Scan failed: Not connected to Kevo database"}

\* a put refused on a read-only handle that was begun and is still active
C13_Witness ==
  /\ TxEnded({"put"})
  /\ tx.readonly
  /\ tx.id \in ServerIds
  /\ ~tx.committed /\ ~tx.rolledBack
  /\ connected
  /\ last.kind = "TransactionError"
  /\ last.rpcs = 0

(* C14: committed and rolledBack are never both true, and a flag that is   *)
(* true stays true, whatever sequence of begin, get, put, delete, scan,    *)
(* commit and rollback is called on the handle, one call after the other,  *)
(* and however their RPCs end.                                             *)
C14_FlagsExclusiveAndStable ==
  /\ [](~(tx.committed /\ tx.rolledBack))
  /\ [][/\ tx.committed => tx'.committed
        /\ tx.rolledBack => tx'.rolledBack]_vars

\* a commit tried, and refused, on a handle that was rolled back
C14_Witness ==
  /\ TxEnded({"commit"})
  /\ tx.rolledBack
  /\ ~tx.committed
  /\ last.kind = "TransactionError"

(* C15: every RPC issued for a method of the Transaction handle, unary or  *)
(* TxScan stream, goes to the client the write-routing rule gives (the     *)
(* discovered primary when writes are auto-routed and the seed is not the  *)
(* primary, else the seed), never to a client of the replica map, also for *)
(* get and scan, for a read-only transaction, and with reads preferring    *)
(* replicas.                                                               *)
C15_TransactionsUseWriteRouting ==
  [][\A p \in Callers :
       ( /\ cur'[p].layer = "tx"
         /\ \/ Issues(p)
            \/ pc[p] = "idle" /\ pc'[p] = "stream" )
       => /\ call'[p].target =
                IF ~options.autoRouteWrites \/ isPrimary THEN client
                ELSE IF primaryClient # NoClient THEN primaryClient
                ELSE client
          /\ call'[p].target \notin ReplicaClients
          /\ currentReplicaIndex' = currentReplicaIndex
    ]_vars

\* a get of a read-only transaction in flight on the seed while a replica is
\* connected and reads prefer replicas
C15_Witness ==
  \E p \in Callers :
    /\ cur[p].layer = "tx"
    /\ cur[p].method = "get"
    /\ tx.readonly
    /\ pc[p] = "invoke"
    /\ isPrimary
    /\ options.autoRouteReads /\ options.preferReplica
    /\ ReplicaClients # {}
    /\ call[p].target = client

\* p is inside discoverTopology: the seed transport became ready
Discovering(p) == pc[p] \in {"nodeInfo", "connPrimary", "connReplica"}

\* the elements of a sequence
Range(seq) == {seq[i] : i \in 1..Len(seq)}

\* once the seed transport is ready nothing that happens in discovery fails
\* connect(): it ends as a success, for connect() and for an auto-connect
DiscoveryNeverFails(p) ==
  (Discovering(p) /\ pc'[p] # pc[p]) =>
    /\ disc'[p].result = "ok"
    /\ pc'[p] \in {"connPrimary", "connReplica", "done", "begin"}
    /\ pc'[p] = "done" => op[p] = "connect" /\ call'[p].result = "none"

\* after a connection attempt to a replica, failed or not, the reported
\* replicas that follow and are not yet in the map are still to be attempted
RestStillAttempted(p) ==
  (pc[p] = "connReplica" /\ disc'[p] # disc[p]) =>
    /\ \A a \in Range(Tail(disc[p].todo)) :
          HasReplica(replicaConnections', a) \/ a \in Range(disc'[p].todo)
    /\ disc'[p].todo # <<>> => pc'[p] = "connReplica"

\* GetNodeInfo fails, so that discovery ends at once with the role as it was:
\* the client, still connected, knows the seed client only
OnlySeedAfterFailure(p) ==
  ( /\ pc[p] = "nodeInfo"
    /\ pc'[p] \in {"done", "begin"}
    /\ isPrimary' = isPrimary
    /\ connected' )
  => /\ client' # NoClient
     /\ primaryClient' = NoClient
     /\ replicaConnections' = <<>>

(* C16: connect() succeeds whenever the seed transport becomes ready,      *)
(* whatever happens in topology discovery: a failed GetNodeInfo and failed *)
(* connections to the reported primary or replicas are swallowed, the      *)
(* remaining reported replicas are still attempted, and after a total      *)
(* discovery failure the client is connected with the originally-connected *)
(* endpoint only, to which all reads and writes go.                        *)
C16_DiscoveryBestEffort ==
  [][\A p \in Callers :
       /\ DiscoveryNeverFails(p)
       /\ RestStillAttempted(p)
       /\ OnlySeedAfterFailure(p)
    ]_vars

\* the clients the Connection holds: every replica of the map, the
\* discovered primary, the originally-connected client
KnownClients ==
  {replicaConnections[i].client : i \in 1..Len(replicaConnections)}
    \cup ({primaryClient, client} \ {NoClient})

\* the step is a call of disconnect(): it is the only operation that closes
\* a client or forgets one
DisconnectStep ==
  \/ client # NoClient /\ client' = NoClient
  \/ primaryClient # NoClient /\ primaryClient' = NoClient
  \/ Len(replicaConnections') < Len(replicaConnections)
  \/ \E h \in 1..Len(transports) : transports'[h].closes # transports[h].closes

(* C17: when disconnect() returns every client the connection knew (each   *)
(* replica, the discovered primary, the originally-connected one) has been *)
(* closed exactly once and no other client has been closed, the replica    *)
(* map is empty, no primary is recorded and isConnected() is false; a      *)
(* disconnect() on a connection that holds no client (a second one, or one *)
(* never connected) closes nothing; no client is ever closed twice.        *)
C17_DisconnectClosesAllOnce ==
  [][ /\ DisconnectStep =>
           /\ Len(transports') = Len(transports)
           /\ \A h \in 1..Len(transports) :
                 transports'[h].closes =
                   IF h \in KnownClients THEN 1 ELSE transports[h].closes
           /\ \A h \in KnownClients : transports[h].closes = 0
           /\ replicaConnections' = <<>>
           /\ primaryClient' = NoClient
           /\ client' = NoClient
           /\ ~connected'
      /\ KnownClients = {} =>
           \A h \in 1..Len(transports) : transports'[h].closes = transports[h].closes
      /\ \A h \in 1..Len(transports') : transports'[h].closes <= 1
    ]_vars

\* the seed client and two replica clients, each closed once
C17_Witness ==
  /\ Len(transports) = 3
  /\ \A h \in 1..Len(transports) : transports[h].closes = 1
  /\ {transports[h].address : h \in 1..Len(transports)} =
       {SeedAddress} \cup ReplicaAddresses
  /\ client = NoClient
  /\ primaryClient = NoClient
  /\ replicaConnections = <<>>
  /\ ~connected

\* the last operation that ended was execute() of the BatchWriter
ExecuteEnded == last.layer = "batch" /\ last.method = "execute"

(* C18: after execute() the batch is empty if the BatchWrite call          *)
(* succeeded; if the call failed, or an accumulated operation failed       *)
(* validation, the batch holds the operations it held before in the same   *)
(* order; an empty batch issues no network call and raises nothing; the    *)
(* request of the one executeWrite call holds all accumulated operations   *)
(* in order, and a failed validation issues no call.                       *)
C18_ExecuteClearsOrRetains ==
  /\ ExecuteEnded =>
       /\ last.batchBefore = <<>> =>
            last.rpcs = 0 /\ last.kind = "none" /\ batch = <<>>
       /\ (last.kind = "none" /\ last.batchBefore # <<>>) =>
            /\ batch = <<>>
            /\ last.request = last.batchBefore
            /\ last.rpcs >= 1
       /\ last.kind # "none" =>
            /\ batch = last.batchBefore
            /\ batch # <<>>
       /\ ~BatchValidate(last.batchBefore).ok =>
            last.kind # "none" /\ last.rpcs = 0
  /\ \A p \in Callers :
       cur[p].layer = "batch" =>
         /\ cur[p].request = batch
         /\ batch # <<>>
         /\ BatchValidate(batch).ok

\* a BatchWrite of a put and a delete failed after reaching the server: both
\* operations are still in the batch, in order
C18_Witness ==
  /\ ExecuteEnded
  /\ last.kind = "Error"
  /\ last.rpcs >= 1
  /\ last.request = <<PutOp(Str(1), Str(1)), DeleteOp(Str(1))>>
  /\ batch = last.request

\* the messages of the errors raised by validation of a key or a value
ValidationMessages ==
  {"Key cannot be empty", "Key cannot be larger than 1KB",
   "Value cannot be null or undefined", "Value cannot be larger than 10MB",
   "Value is required for PUT operations"}

\* the operation was rejected by validation of its arguments
ValidationRejected(o) == o.kind # "none" /\ o.msg \in ValidationMessages

\* the arguments that are to be rejected: a key of no or of more than 1024
\* bytes; where a value is taken, none or one of more than 10 MiB
OutOfBounds(key, value, takesValue) ==
  \/ key.len = 0
  \/ key.len > 1024
  \/ takesValue /\ (value.kind = "null" \/ value.len > 10 * 1024 * 1024)

\* get, put or delete of the client or of a usable transaction has ended
KeyValueEnded ==
  /\ last.layer \in {"client", "tx"}
  /\ last.method \in {"get", "put", "delete"}
  /\ last.layer = "tx" =>
       /\ EndedCheck(last.txBefore).ok
       /\ ReadonlyCheck(last.txBefore, last.method).ok

(* C19: get, put and delete of the client and of a transaction, and        *)
(* execute() of a batch for the puts and deletes it holds, are rejected by *)
(* validation exactly when a key has 0 or more than 1024 bytes or a value  *)
(* is null or has more than 10 MiB (1024 bytes, 10 MiB and an empty value  *)
(* pass), and a rejected operation has made no network call.               *)
C19_BoundaryValidation ==
  /\ KeyValueEnded =>
       /\ ValidationRejected(last) <=>
            OutOfBounds(last.key, last.value, last.method = "put")
       /\ ValidationRejected(last) => last.rpcs = 0
  /\ (ExecuteEnded /\ last.batchBefore # <<>>) =>
       /\ ValidationRejected(last) <=>
            \E i \in 1..Len(last.batchBefore) :
               LET o == last.batchBefore[i]
               IN OutOfBounds(o.key, o.value, o.type = "PUT")
       /\ ValidationRejected(last) => last.rpcs = 0

(* C20: every validation failure (empty key, key of more than 1024 bytes,  *)
(* value of more than 10 MiB, missing value of a batch put) reaches the    *)
(* caller as an InvalidArgumentError.                                      *)
C20_ValidationErrorType ==
  ValidationRejected(last) => last.kind = "InvalidArgumentError"

\* the executeRead calls under way or just ended
Reads == {p \in Calls : op[p] = "read"}

(* C30, as stated: within one executeRead call the primary is invoked as   *)
(* a fallback at most once, so the call makes at most maxRetries+2         *)
(* invocations.                                                            *)
C30_AsStated ==
  \A p \in Reads :
    /\ call[p].fallbacks <= 1
    /\ call[p].calls + call[p].fallbacks <= options.maxRetries + 2

(* C30, amended: within one executeRead call the primary is invoked as a   *)
(* fallback at most once per attempt, and only after an invocation of that *)
(* attempt failed with a read-only-classified error while a primary client *)
(* was known, so the call makes at most 2 * (maxRetries+1) invocations.    *)
C30_FallbackOncePerAttempt ==
  \A p \in Reads :
    /\ call[p].fallbacks <= call[p].calls
    /\ call[p].fallbacks <= call[p].attempt + 1
    /\ call[p].calls <= options.maxRetries + 1
    /\ call[p].calls + call[p].fallbacks <= 2 * (options.maxRetries + 1)
    /\ pc[p] = "fallback" =>
         /\ IsReadOnlyError(call[p].error)
         /\ call[p].target # NoClient
         /\ call[p].viaPrimary

\* with maxRetries = 1, both attempts fell back to the primary: 4 invocations
C30_Witness ==
  \E p \in Reads :
    /\ options.maxRetries = 1
    /\ pc[p] = "done"
    /\ call[p].calls = 2
    /\ call[p].fallbacks = 2

\* connect(), called directly or by executeRead/executeWrite, fails in this
\* step of p for the given cause
ConnectFails(p, why) ==
  /\ disc[p].result # "failed"
  /\ disc'[p].result = "failed"
  /\ disc'[p].failure = why

(* C26: a connect() whose transport is not ready within connectTimeout     *)
(* fails with TimeoutError, one whose transport fails fails with           *)
(* ConnectionError; either way the connection is left not connected and    *)
(* no topology discovery follows.                                          *)
C26_ConnectFailureKinds ==
  [][\A p \in Callers :
       /\ ConnectFails(p, "timeout") =>
            /\ call'[p].thrown.kind = "TimeoutError"
            /\ ~connected' /\ pc'[p] = "done"
       /\ ConnectFails(p, "transport") =>
            /\ call'[p].thrown.kind = "ConnectionError"
            /\ ~connected' /\ pc'[p] = "done"
    ]_vars

\* the seed transports opened so far
SeedTransports(ts) == {h \in 1..Len(ts) : ts[h].address = SeedAddress}

(* C28: connection establishment is not retried.  A seed transport is      *)
(* opened only by the first step of a connect(), which does not start over *)
(* once under way, and of two consecutive steps opens at most one; an      *)
(* executeRead/executeWrite whose auto-connect failed has ended with that  *)
(* ConnectionError, having made no invocation and slept no backoff,        *)
(* whatever maxRetries is.                                                 *)
C28_ConnectNotRetried ==
  /\ [](\A p \in Calls :
          disc[p].result = "failed" =>
            /\ pc[p] = "done"
            /\ call[p].result = "error"
            /\ call[p].thrown = ConnectFailedError
            /\ call[p].calls = 0
            /\ call[p].fallbacks = 0
            /\ call[p].sleeps = <<>>)
  /\ [][ /\ SeedTransports(transports') # SeedTransports(transports) =>
             /\ Cardinality(SeedTransports(transports')) =
                  Cardinality(SeedTransports(transports)) + 1
             /\ \E p \in Callers : pc[p] = "loading" /\ pc'[p] = "waitReady"
         /\ \A p \in Callers :
              /\ pc[p] \notin {"idle", "loading"} => pc'[p] # "loading"
              /\ pc[p] = "loading" => pc'[p] \in {"loading", "waitReady", "done"}
              /\ (pc[p] = "waitReady" /\ disc'[p].result = "failed") => pc'[p] = "done"
       ]_vars

\* a write with three retries allowed whose auto-connect timed out: one
\* transport opened, nothing invoked
C28_Witness ==
  \E p \in Calls :
    /\ op[p] = "write"
    /\ options.maxRetries = 3
    /\ disc[p].result = "failed"
    /\ disc[p].failure = "timeout"
    /\ call[p].calls = 0
    /\ Len(transports) = 1

\* the transports to address a that were opened and not closed
OpenTo(a) == {h \in 1..Len(transports) : transports[h].address = a /\ transports[h].closes = 0}

Enters(p) == pc[p] = "idle" /\ op'[p] \in {"read", "write"}

\* the first invocation of the call of p is issued in this step
FirstInvocation(p) ==
  /\ op[p] \in {"read", "write"}
  /\ call[p].calls + call[p].fallbacks = 0
  /\ call'[p].calls + call'[p].fallbacks = 1

(* C27: executeRead and executeWrite ensure the connection first: entered  *)
(* while isConnected() is false they start establishing a connection, the  *)
(* first invocation of a call is issued in a state where isConnected() is  *)
(* true, and a call that fails without having invoked anything fails with  *)
(* a ConnectionError.                                                      *)
C27_EnsureConnected ==
  /\ [][\A p \in Callers :
          /\ (Enters(p) /\ ~isConnected) => pc'[p] = "loading"
          /\ FirstInvocation(p) => isConnected
       ]_vars
  /\ [](\A p \in Calls :
          (pc[p] = "done" /\ call[p].result = "error" /\ call[p].calls = 0) =>
            call[p].thrown.kind = "ConnectionError")


\* the kinds of failure of the taxonomy of errors.ts
TaxonomyKinds ==
  {"ConnectionError", "TimeoutError", "ReadOnlyError", "TransactionError",
   "KeyNotFoundError", "InvalidArgumentError", "RpcError"}

(* C21: an operation of the client, of a transaction or of a batch whose   *)
(* arguments passed validation either resolves or fails with one of the    *)
(* kinds ConnectionError, TimeoutError, ReadOnlyError, TransactionError,   *)
(* KeyNotFoundError, InvalidArgumentError or RpcError.                     *)
C21_TaxonomyKinds ==
  (last.layer # "none" /\ ~ValidationRejected(last)) =>
     last.kind \in TaxonomyKinds \cup {"none"}


\* the paths of the Connection that route as reads
ReadPaths == {"read", "readStream"}

(* C24: whatever remote method an operation is for, it is dispatched       *)
(* through executeRead or the read stream path exactly when the method is  *)
(* Get, GetStats, Scan or GetNodeInfo, and through executeWrite or the     *)
(* write stream path otherwise; so Scan and TxScan are classified the same *)
(* by executeWithRetry and by executeStream.                               *)
C24_ClassificationTable ==
  \A p \in Callers :
     (cur[p].layer # "none" /\ op[p] # "none") =>
        /\ op[p] \in {"read", "write", "readStream", "writeStream"}
        /\ op[p] \in ReadPaths <=>
             GrpcName(cur[p]) \in {"Get", "GetStats", "Scan", "GetNodeInfo"}

\* GetStats, called through executeWithRetry, in flight on a replica
C24_Witness ==
  \E p \in Callers :
    /\ cur[p].layer = "connection"
    /\ cur[p].method = "GetStats"
    /\ op[p] = "read"
    /\ pc[p] = "invoke"
    /\ call[p].target \in ReplicaClients

\* caller p opens a stream
Opens(p) == pc[p] = "idle" /\ pc'[p] = "stream"

\* a scan ends without a stream having been opened: no call chain was or is
\* under way
EndsUnopened ==
  /\ \A q \in Callers : pc[q] = "idle" /\ pc'[q] = "idle"
  /\ last' # last
  /\ GrpcName([layer |-> last'.layer, method |-> last'.method]) \in StreamingMethods

(* C25: a stream is opened only while isConnected(), as the one streaming  *)
(* call of its scan, on the client a unary call of the same class would be *)
(* given in that state: for Scan a client the read rule gives, leaving the *)
(* round-robin cursor where the rule leaves it; for TxScan the client of   *)
(* the write rule, the cursor untouched.  While the stream is open nothing *)
(* is invoked again for it, and it ends with that one call made; a scan    *)
(* that cannot open its stream fails without a call.                       *)
C25_StreamRouting ==
  [][/\ \A p \in Callers :
       /\ Opens(p) =>
            /\ isConnected
            /\ call'[p].calls = 1
            /\ GrpcName(cur'[p]) \in StreamingMethods
            /\ GrpcName(cur'[p]) = "Scan" =>
                 \E s \in getReadClient :
                    /\ call'[p].target = s.client
                    /\ currentReplicaIndex' = s.index
            /\ GrpcName(cur'[p]) = "TxScan" =>
                 /\ call'[p].target = getWriteClient
                 /\ currentReplicaIndex' = currentReplicaIndex
       /\ pc[p] = "stream" =>
            \/ pc'[p] = "stream" /\ call'[p] = call[p]
            \/ /\ pc'[p] = "idle"
               /\ last'.layer = cur[p].layer
               /\ last'.rpcs = 1
     /\ EndsUnopened => (last'.kind # "none" /\ last'.rpcs = 0)
    ]_vars

\* a Scan stream of the client open on a replica, the round-robin cursor
\* advanced by its selection
C25_Witness ==
  \E p \in Callers :
    /\ pc[p] = "stream"
    /\ cur[p].layer = "client"
    /\ GrpcName(cur[p]) = "Scan"
    /\ call[p].target \in ReplicaClients
    /\ options.replicaSelectionStrategy = "round_robin"
    /\ currentReplicaIndex = 1


\* the last operation was a get of the client, and one that a node answered
GetEnded == last.layer = "client" /\ last.method = "get"
GetAnswered == GetEnded /\ last.answer.node # "none"

\* the write to the key of operation o that was acknowledged last
AckedFor(o) == store.acked[toBuffer(o.key)]

\* the byte sequence a value stands for: the bytes of a Buffer, the UTF-8
\* encoding of a string
BytesOf(a) == IF a.kind = "buffer" THEN a.data ELSE Utf8(a.data)

C31_LastErrorSurfaced ==
  \A p \in Calls :
     ( /\ pc[p] = "done"
       /\ call[p].result = "error"
       /\ call[p].failures > 0
       /\ call[p].thrown.kind # "ReadOnlyError" )
     => call[p].thrown = call[p].lastError


(* C32: an executeWrite call whose invocation fails with an error that     *)
(* executeRead takes for read-only (its message contains 'read-only' or    *)
(* 'readonly', or its status code is FAILED_PRECONDITION) raises           *)
(* ReadOnlyError.                                                          *)
C32_SameReadOnlyClass ==
  \A p \in Calls :
     ( /\ op[p] = "write"
       /\ pc[p] = "done"
       /\ call[p].result = "error"
       /\ call[p].failures > 0
       /\ IsReadOnlyError(call[p].lastError) )
     => call[p].thrown.kind = "ReadOnlyError"


(* C33: while the seed node is the primary, a read whose invocation on a   *)
(* client of the replica map fails with an error classified as read-only   *)
(* is invoked once more at once, on the seed client.                       *)
C33_FallbackToSeedPrimary ==
  [][\A p \in Callers :
       ( /\ op[p] = "read"
         /\ pc[p] = "invoke"
         /\ isPrimary
         /\ client # NoClient
         /\ call[p].target \in ReplicaClients
         /\ call'[p].failures = call[p].failures + 1
         /\ IsReadOnlyError(call'[p].error) )
       => /\ pc'[p] = "fallback"
          /\ call'[p].target = client
    ]_vars


(* C34: while connect() and disconnect() calls do not overlap, replica
   endpoints are held only when the last node-info response reported role
   primary and autoRouteReads is enabled, a discovered primary endpoint only
   when it reported another role and autoRouteWrites is enabled, the two
   never coexist, an endpoint is added only by the discovery step for it
   (for a replica: the address at the head of the list of those reported
   available), and GetNodeInfo is sent exactly when a connect() has set
   connected. *)
TopologyConsistent ==
  /\ replicaConnections # <<>> => isPrimary /\ options.autoRouteReads
  /\ primaryClient # NoClient => ~isPrimary /\ options.autoRouteWrites
  /\ ~(primaryClient # NoClient /\ replicaConnections # <<>>)

DiscoveryStep(p) ==
  /\ (pc[p] = "nodeInfo" /\ pc'[p] = "connPrimary")
       => ~isPrimary' /\ options.autoRouteWrites
  /\ (pc[p] = "nodeInfo" /\ pc'[p] = "connReplica")
       => isPrimary' /\ options.autoRouteReads
  /\ (primaryClient' # primaryClient /\ primaryClient' # NoClient)
       => pc[p] = "connPrimary"
  /\ (replicaConnections' # replicaConnections /\ replicaConnections' # <<>>)
       => /\ pc[p] = "connReplica"
          /\ replicaConnections' =
               MapSet(replicaConnections, Head(disc[p].todo), Len(transports) + 1)
  /\ (pc'[p] = "nodeInfo") <=> (~connected /\ connected')
  /\ pc[p] = "nodeInfo" => pc'[p] # "nodeInfo"

C34_WitnessReplicas ==
  /\ pc[MainCaller] = "done" /\ op[MainCaller] = "connect"
  /\ connected /\ isPrimary /\ Len(replicaConnections) = 2


(* C35: begin() on a handle that is already committed or rolled back fails
   with a TransactionError without any network call, and leaves the
   transaction id and both flags as they were. *)
C35_BeginOnEndedHandle ==
  (TxEnded({"begin"}) /\ (last.txBefore.committed \/ last.txBefore.rolledBack)) =>
    /\ last.kind = "TransactionError"
    /\ last.rpcs = 0
    /\ tx = last.txBefore


(* C39: a commit() or rollback() that fails on a handle that has not ended
   (its executeWrite call rejects) raises a TransactionError
   and leaves committed, rolledBack and the transaction id as they were; the
   handle is still active, so that a later commit() or rollback() passes the
   local checks and issues its RPC. *)
C39_FailedEndKeepsHandle ==
  ( /\ TxEnded({"commit", "rollback"}) /\ last.kind # "none"
    /\ ~last.txBefore.committed /\ ~last.txBefore.rolledBack ) =>
    /\ last.kind = "TransactionError"
    /\ last.msg = "Failed to " \o last.method \o " transaction"
    /\ tx = last.txBefore
    /\ ~tx.committed /\ ~tx.rolledBack
    /\ \A m \in {"commit", "rollback"} : TxPrecheck(tx, m, NoArg, NoArg).ok

\* a commit() that failed on the server after a begin() that succeeded
C39_Witness ==
  /\ TxEnded({"commit"})
  /\ last.kind = "TransactionError" /\ last.rpcs > 0
  /\ tx.id \in ServerIds
  /\ ~tx.committed


(* C36: executeWrite and executeWriteStream invoke only on the discovered
   primary endpoint or on the originally-connected endpoint, never on an
   endpoint of the replica map; and every retry of an executeWrite call
   invokes on the endpoint of the attempt before it (the topology cannot
   change between two invocations of one call here: a disconnect() in
   between leaves the retry without an invocation). *)
AllReplicaClients ==
  {replicaConnections[i].client : i \in 1..Len(replicaConnections)}

WriteInvoked(p) ==
  \/ op'[p] = "write" /\ pc[p] \in {"begin", "sleep"} /\ pc'[p] = "invoke"
  \/ op'[p] = "writeStream" /\ pc[p] = "idle" /\ pc'[p] = "stream"

C36_WritesAvoidReplicas ==
  [][\A p \in Callers :
       /\ WriteInvoked(p) =>
            /\ call'[p].target \in {client, primaryClient} \ {NoClient}
            /\ call'[p].target \notin AllReplicaClients
       /\ (WriteInvoked(p) /\ pc[p] = "sleep") =>
            call'[p].target = call[p].target
    ]_vars

\* the second invocation of a write on the seed client, a primary that has
\* a replica connected
C36_Witness ==
  /\ op[MainCaller] = "write" /\ pc[MainCaller] = "invoke"
  /\ call[MainCaller].calls = 2
  /\ call[MainCaller].target = client
  /\ isPrimary /\ replicaConnections # <<>>

\* a stream opened by executeWriteStream on the discovered primary
C36_WitnessStream ==
  /\ op[MainCaller] = "writeStream" /\ pc[MainCaller] = "stream"
  /\ call[MainCaller].target = primaryClient
  /\ primaryClient # NoClient


(* C37: once disconnect() has returned and no connect() is in flight (the
   connection holds no seed client and no call chain is inside connect()),
   every transport the connection ever opened has been closed, no endpoint
   is recorded and the connection is not connected. *)
C37_NoTransportLeak ==
  (client = NoClient /\ \A p \in Callers : ~Connecting(p)) =>
    /\ \A h \in 1..Len(transports) : transports[h].closes > 0
    /\ primaryClient = NoClient
    /\ replicaConnections = <<>>
    /\ ~connected


(* C38: no batch operation is silently lost: when an execute() completes,
   with put/delete calls made while it was in flight, every operation held
   by the batch is afterwards still held, except those of the request when
   the BatchWrite call succeeded. *)
ExecuteCompletes(p) ==
  pc[p] = "done" /\ cur[p].layer = "batch" /\ pc'[p] = "idle"

C38_NoOperationLost ==
  [][\A p \in Callers :
       ExecuteCompletes(p) =>
         LET sent == IF call[p].result = "ok" THEN Len(cur[p].request) ELSE 0
         IN batch' = SubSeq(batch, sent + 1, Len(batch))
    ]_vars


(* C40: every executeRead and executeWrite call terminates: provided each
   invocation completes and each backoff sleep ends, a call that has been
   entered eventually returns a response or raises an error, and it never
   makes more than maxRetries + 1 iterations of its retry loop. *)
Pending(p) == op[p] \in {"read", "write"} /\ pc[p] # "done"

Settled(p) ==
  /\ op[p] \in {"read", "write"} /\ pc[p] = "done"
  /\ \/ call[p].result = "ok"
     \/ call[p].result = "error" /\ call[p].thrown # NoError

IterationsBounded ==
  \A p \in Calls :
     /\ call[p].attempt <= options.maxRetries
     /\ call[p].calls <= options.maxRetries + 1
     /\ Len(call[p].sleeps) <= options.maxRetries

C40_CallsTerminate ==
  /\ []IterationsBounded
  /\ \A p \in {MainCaller} : Pending(p) ~> Settled(p)

\* a call that raised the error of its last invocation after using every
\* iteration of a loop of three retries
C40_Witness ==
  /\ op[MainCaller] \in {"read", "write"} /\ pc[MainCaller] = "done"
  /\ options.maxRetries = MaxRetriesBound
  /\ call[MainCaller].calls = MaxRetriesBound + 1
  /\ call[MainCaller].result = "error"

====
